---- MODULE Spec2Model ----
(***************************************************************************)
(* NEST-Dashboard: reconciliation of clinical-trial staging records        *)
(* (fill_missing_values.py), the DQI scoring engine and the clean-status   *)
(* evaluator (dqi_clean_status_cal.py).                                    *)
(*                                                                         *)
(* Numbers.  Python floats are modelled in fixed point:                    *)
(*   - a normalized sub-score is an integer count of 1/NormUnit,           *)
(*   - a weight is an integer count of 1/WeightUnit,                       *)
(*   - a composite score is an integer count of 1/ScoreUnit                *)
(*     (ScoreUnit = WeightUnit * NormUnit),                                *)
(*   - a value rounded to 2 decimals is an integer count of 1/100.        *)
(* SQL NULL / pandas NaN / Python None is NULL for numeric columns and     *)
(* NONE for text columns.                                                  *)
(***************************************************************************)
EXTENDS Integers, Sequences, FiniteSets, TLC

VARIABLES
    pc,                        \* position of the run
    args,                      \* arguments of the pure function under call
    result,                    \* its return value
    config,                    \* [weights, thresholds]: DQI_WEIGHTS, MAX_THRESHOLDS
    subject_level_metrics,     \* table subject_level_metrics: key -> row
    subject_dqi_clean_status,  \* table subject_dqi_clean_status: key -> row
    dataframes,                \* the extracted tables of one study
    filled_subject_metrics,    \* the reconciled subject records
    database,                  \* the other tables of the database: name -> rows
    history                    \* the steps of the run so far, in order

vars == <<pc, args, result, config, subject_level_metrics,
          subject_dqi_clean_status, dataframes, filled_subject_metrics,
          database, history>>

NULL == 0 - 1
NONE == "None"

NormUnit == 10000
WeightUnit == 100
ScoreUnit == WeightUnit * NormUnit
PctUnit == 100

Min(a, b) == IF a <= b THEN a ELSE b
Max(a, b) == IF a >= b THEN a ELSE b

\* Python `x or 0` on a nullable integer.
OrZero(x) == IF x = NULL THEN 0 ELSE x

\* Floor division for either sign of the divisor (Python float division, cut
\* to the model's resolution).
FloorDiv(n, d) == IF d > 0 THEN n \div d ELSE (0 - n) \div (0 - d)

\* Python round(x, 2): x in units of 1/unit, result in units of 1/100,
\* ties to even.
Round2(x, unit) ==
    LET step == unit \div 100
        q == x \div step
        r == x % step
    IN  IF 2 * r < step THEN q
        ELSE IF 2 * r > step THEN q + 1
        ELSE IF q % 2 = 0 THEN q ELSE q + 1

(***************************************************************************)
(* Scoring engine                                                          *)
(***************************************************************************)

DimensionNames ==
    <<"safety_issues", "open_queries", "missing_visits", "missing_pages",
      "non_conformant", "unsigned_crfs", "unverified_forms", "uncoded_terms",
      "protocol_deviations">>

Dimensions == {DimensionNames[i] : i \in 1..Len(DimensionNames)}

\* DQI_WEIGHTS, in hundredths.
DQI_WEIGHTS ==
    [safety_issues |-> 25, open_queries |-> 15, missing_visits |-> 15,
     missing_pages |-> 10, non_conformant |-> 15, unsigned_crfs |-> 10,
     unverified_forms |-> 10, uncoded_terms |-> 5, protocol_deviations |-> 5]

\* MAX_THRESHOLDS (the key non_conformant_pct is named non_conformant here).
MAX_THRESHOLDS ==
    [open_queries |-> 1, missing_visits |-> 0, missing_pages |-> 0,
     safety_issues |-> 2, non_conformant |-> 0, unsigned_crfs |-> 12,
     unverified_forms |-> 8, uncoded_terms |-> 0, protocol_deviations |-> 0]

normalize_metric_ZeroThresholdScoresZero(actual_value, max_threshold) ==
    IF max_threshold = 0
    THEN IF actual_value > 0 THEN 0 ELSE 100 * NormUnit
    ELSE LET ratio == FloorDiv(actual_value * NormUnit, max_threshold)
             normalized == 100 * (NormUnit - ratio)
         IN  Max(0, Min(100 * NormUnit, normalized))

normalize_metric_NoClamp(actual_value, max_threshold) ==
    IF max_threshold = 0
    THEN 100 * NormUnit
    ELSE LET ratio == FloorDiv(actual_value * NormUnit, max_threshold)
         IN  100 * (NormUnit - ratio)

normalize_metric(actual_value, max_threshold) ==
    IF max_threshold = 0
    THEN 100 * NormUnit
    ELSE LET ratio == FloorDiv(actual_value * NormUnit, max_threshold)
             normalized == 100 * (NormUnit - ratio)
         IN  Max(0, Min(100 * NormUnit, normalized))

calculate_dqi_category_ExclusiveBounds(dqi_score) ==
    IF dqi_score > 90 * ScoreUnit THEN "Excellent"
    ELSE IF dqi_score > 75 * ScoreUnit THEN "Good"
    ELSE IF dqi_score > 60 * ScoreUnit THEN "Acceptable"
    ELSE IF dqi_score > 40 * ScoreUnit THEN "Needs Attention"
    ELSE "Critical"

calculate_dqi_category(dqi_score) ==
    IF dqi_score >= 90 * ScoreUnit THEN "Excellent"
    ELSE IF dqi_score >= 75 * ScoreUnit THEN "Good"
    ELSE IF dqi_score >= 60 * ScoreUnit THEN "Acceptable"
    ELSE IF dqi_score >= 40 * ScoreUnit THEN "Needs Attention"
    ELSE "Critical"

\* SQL a + b: NULL when either operand is NULL.
SqlAdd(a, b) == IF a = NULL \/ b = NULL THEN NULL ELSE a + b

\* Columns of subject_level_metrics read by the two engines.
MetricColumns ==
    {"total_queries", "missing_visits", "missing_page", "esae_dashboard_dm",
     "esae_dashboard_safety", "pages_entered", "pages_non_conformant",
     "crfs_never_signed", "crfs_overdue_within_45_days",
     "crfs_overdue_45_to_90_days", "crfs_overdue_beyond_90_days",
     "crfs_require_verification", "uncoded_terms", "pds_proposed",
     "broken_signatures", "open_issues_in_lnr", "open_issues_edrr"}

\* The SELECT of calculate_dqi_for_all_subjects on one row.
DqiQuery(row) ==
    [open_queries |-> row.total_queries,
     missing_visits |-> row.missing_visits,
     missing_pages |-> row.missing_page,
     safety_issues |-> SqlAdd(row.esae_dashboard_dm, row.esae_dashboard_safety),
     pages_entered |-> row.pages_entered,
     pages_non_conformant |-> row.pages_non_conformant,
     unsigned_crfs |->
         SqlAdd(SqlAdd(SqlAdd(row.crfs_never_signed,
                              row.crfs_overdue_within_45_days),
                       row.crfs_overdue_45_to_90_days),
                row.crfs_overdue_beyond_90_days),
     unverified_forms |-> row.crfs_require_verification,
     uncoded_terms |-> row.uncoded_terms,
     protocol_deviations |-> row.pds_proposed]

\* None / int raises TypeError: pages_entered > 0 with pages_non_conformant NULL.
DqiRaises(row) == row.pages_entered # NULL /\ row.pages_entered > 0
                  /\ row.pages_non_conformant = NULL

\* non_conformant_pct, in units of 1/PctUnit percent.
non_conformant_pct(s) ==
    IF s.pages_entered # NULL /\ s.pages_entered > 0
    THEN FloorDiv(s.pages_non_conformant * 100 * PctUnit, s.pages_entered)
    ELSE 0

\* The nine normalized sub-scores of one subject (units of 1/NormUnit).
NormalizedScores(s, thresholds) ==
    [open_queries |-> normalize_metric(OrZero(s.open_queries), thresholds.open_queries),
     missing_visits |-> normalize_metric(OrZero(s.missing_visits), thresholds.missing_visits),
     missing_pages |-> normalize_metric(OrZero(s.missing_pages), thresholds.missing_pages),
     safety_issues |-> normalize_metric(OrZero(s.safety_issues), thresholds.safety_issues),
     non_conformant |-> normalize_metric(non_conformant_pct(s),
                                         thresholds.non_conformant * PctUnit),
     unsigned_crfs |-> normalize_metric(OrZero(s.unsigned_crfs), thresholds.unsigned_crfs),
     unverified_forms |-> normalize_metric(OrZero(s.unverified_forms), thresholds.unverified_forms),
     uncoded_terms |-> normalize_metric(OrZero(s.uncoded_terms), thresholds.uncoded_terms),
     protocol_deviations |-> normalize_metric(OrZero(s.protocol_deviations),
                                              thresholds.protocol_deviations)]

RECURSIVE SumOver(_, _, _)
SumOver(names, f, g) ==
    IF names = <<>> THEN 0
    ELSE f[Head(names)] * g[Head(names)] + SumOver(Tail(names), f, g)

\* The weighted DQI score before the final cap (units of 1/ScoreUnit).
WeightedScore(norm, weights) == SumOver(DimensionNames, weights, norm)

CapScore_NoCap(dqi_score) == dqi_score

\* dqi_score = min(100.0, max(0.0, dqi_score))
CapScore(dqi_score) == Min(100 * ScoreUnit, Max(0, dqi_score))

\* The tuple appended to dqi_results for one row, as the row INSERT OR REPLACE
\* leaves in subject_dqi_clean_status (the clean-status columns take the
\* schema's defaults).
DqiRow(row, cfg) ==
    LET s == DqiQuery(row)
        norm == NormalizedScores(s, cfg.thresholds)
        dqi_score == CapScore(WeightedScore(norm, cfg.weights))
    IN  [dqi_score |-> Round2(dqi_score, ScoreUnit),
         dqi_category |-> calculate_dqi_category(dqi_score),
         norm |-> [d \in Dimensions |-> Round2(norm[d], NormUnit)],
         clean_status |-> NONE,
         criteria_met |-> 0,
         criteria_total |-> 11,
         failing_criteria |-> <<>>]

(***************************************************************************)
(* Clean-status evaluator                                                  *)
(***************************************************************************)

CriteriaNames ==
    <<"no_missing_visits", "no_missing_pages", "no_open_queries",
      "no_non_conformant_data", "no_uncoded_terms", "all_forms_verified",
      "all_forms_signed", "no_broken_signatures", "no_lab_issues",
      "no_edrr_issues", "no_safety_issues">>

Criteria == {CriteriaNames[i] : i \in 1..Len(CriteriaNames)}

criteria_SafetyFromDmOnly(row) ==
    [no_missing_visits |-> OrZero(row.missing_visits) = 0,
     no_missing_pages |-> OrZero(row.missing_page) = 0,
     no_open_queries |-> OrZero(row.total_queries) = 0,
     no_non_conformant_data |-> OrZero(row.pages_non_conformant) = 0,
     no_uncoded_terms |-> OrZero(row.uncoded_terms) = 0,
     all_forms_verified |-> OrZero(row.crfs_require_verification) = 0,
     all_forms_signed |-> OrZero(row.crfs_never_signed) = 0,
     no_broken_signatures |-> OrZero(row.broken_signatures) = 0,
     no_lab_issues |-> OrZero(row.open_issues_in_lnr) = 0,
     no_edrr_issues |-> OrZero(row.open_issues_edrr) = 0,
     no_safety_issues |-> OrZero(row.esae_dashboard_dm) = 0]

\* The criteria dict of one row.
criteria(row) ==
    [no_missing_visits |-> OrZero(row.missing_visits) = 0,
     no_missing_pages |-> OrZero(row.missing_page) = 0,
     no_open_queries |-> OrZero(row.total_queries) = 0,
     no_non_conformant_data |-> OrZero(row.pages_non_conformant) = 0,
     no_uncoded_terms |-> OrZero(row.uncoded_terms) = 0,
     all_forms_verified |-> OrZero(row.crfs_require_verification) = 0,
     all_forms_signed |-> OrZero(row.crfs_never_signed) = 0,
     no_broken_signatures |-> OrZero(row.broken_signatures) = 0,
     no_lab_issues |-> OrZero(row.open_issues_in_lnr) = 0,
     no_edrr_issues |-> OrZero(row.open_issues_edrr) = 0,
     no_safety_issues |->
         OrZero(row.esae_dashboard_dm) + OrZero(row.esae_dashboard_safety) = 0]

RECURSIVE CountTrue(_, _)
CountTrue(names, c) ==
    IF names = <<>> THEN 0
    ELSE (IF c[Head(names)] THEN 1 ELSE 0) + CountTrue(Tail(names), c)

RECURSIVE Failing(_, _)
Failing(names, c) ==
    IF names = <<>> THEN <<>>
    ELSE (IF c[Head(names)] THEN <<>> ELSE <<Head(names)>>)
         \o Failing(Tail(names), c)

failing_criteria_FirstOnly(c) ==
    LET f == Failing(CriteriaNames, c)
    IN  IF f = <<>> THEN <<>> ELSE <<Head(f)>>

\* [k for k, v in criteria.items() if not v]
failing_criteria(c) == Failing(CriteriaNames, c)

\* The tuple appended to clean_status_results for one row: the columns the
\* UPDATE sets.
CleanRow(row) ==
    LET c == criteria(row)
        is_clean == \A k \in Criteria : c[k]
    IN  [clean_status |-> IF is_clean THEN "Clean" ELSE "Not Clean",
         criteria_met |-> CountTrue(CriteriaNames, c),
         criteria_total |-> Len(CriteriaNames),
         failing_criteria |-> failing_criteria(c)]

(***************************************************************************)
(* Bounds of the model                                                     *)
(***************************************************************************)

\* normalize_metric is called with actual values in -MaxActual..MaxActual
\* and thresholds in 0..MaxThreshold.
MaxActual == 14
MaxThreshold == 12

\* A row of subject_level_metrics has at most MaxDirty columns that differ
\* from 0, each holding one of DirtyValues.
MaxDirty == 2
DirtyValues == {NULL, 1, 13}

RECURSIVE SubsetsUpTo(_, _)
SubsetsUpTo(S, k) ==
    IF k = 0 THEN {{}}
    ELSE LET P == SubsetsUpTo(S, k - 1)
         IN  P \cup {T \cup {x} : T \in P, x \in S}

MetricRows ==
    UNION {{[c \in MetricColumns |-> IF c \in D THEN v[c] ELSE 0] :
                v \in [D -> DirtyValues]} :
           D \in SubsetsUpTo(MetricColumns, MaxDirty)}

ScoreKeys == {<<"Study 1", "Site 1", "Subject 1">>}

Shipped == [weights |-> DQI_WEIGHTS, thresholds |-> MAX_THRESHOLDS]

\* A recalibration with every threshold positive and weights that sum to 1.
Recalibrated ==
    [weights |->
        [safety_issues |-> 20, open_queries |-> 15, missing_visits |-> 15,
         missing_pages |-> 10, non_conformant |-> 10, unsigned_crfs |-> 10,
         unverified_forms |-> 10, uncoded_terms |-> 5, protocol_deviations |-> 5],
     thresholds |->
        [open_queries |-> 5, missing_visits |-> 2, missing_pages |-> 2,
         safety_issues |-> 2, non_conformant |-> 50, unsigned_crfs |-> 12,
         unverified_forms |-> 8, uncoded_terms |-> 3, protocol_deviations |-> 3]]

\* A recalibration whose weights sum to less than 1.
Underweight ==
    [weights |-> [d \in Dimensions |-> 5],
     thresholds |-> [d \in Dimensions |-> 13]]

Configs == {Shipped, Recalibrated, Underweight}

EmptyTable == [k \in {} |-> NONE]

(***************************************************************************)
(* Coercions before persistence (data_insertion.py)                        *)
(***************************************************************************)

\* A cell value as pandas hands it over: None, NaN, an int, a float (in
\* hundredths), a str or a Timestamp (a date-formatted cell).
Cell(type, num, text) == [type |-> type, num |-> num, text |-> text]

\* int(str) and float(str) on the strings of the model; any other string
\* raises ValueError.
IntLiterals == [t \in {"12"} |-> 12]
FloatLiterals == [t \in {"12", "3.7"} |-> IF t = "12" THEN 1200 ELSE 370]

\* pd.isna(x) or x is None
IsNa(x) == x.type \in {"NoneType", "nan"}

Returns(value, warning) == [value |-> value, warning |-> warning, raises |-> NONE]
Raises(exception) == [value |-> NULL, warning |-> FALSE, raises |-> exception]

\* convert_int_for_db: only ValueError is caught.
convert_int_for_db(int_val) ==
    IF IsNa(int_val) THEN Returns(0, FALSE)
    ELSE CASE int_val.type = "int" -> Returns(int_val.num, FALSE)
           [] int_val.type = "float" ->
                  Returns(IF int_val.num >= 0 THEN int_val.num \div 100
                          ELSE 0 - ((0 - int_val.num) \div 100), FALSE)
           [] int_val.type = "str" ->
                  IF int_val.text \in DOMAIN IntLiterals
                  THEN Returns(IntLiterals[int_val.text], FALSE)
                  ELSE Returns(0, TRUE)
           [] OTHER -> Raises("TypeError")

\* convert_float_for_db, result in hundredths: nothing is caught.
convert_float_for_db(float_val) ==
    IF IsNa(float_val) THEN Returns(0, FALSE)
    ELSE CASE float_val.type = "int" -> Returns(float_val.num * 100, FALSE)
           [] float_val.type = "float" -> Returns(float_val.num, FALSE)
           [] float_val.type = "str" ->
                  IF float_val.text \in DOMAIN FloatLiterals
                  THEN Returns(FloatLiterals[float_val.text], FALSE)
                  ELSE Raises("ValueError")
           [] OTHER -> Raises("TypeError")

\* The cell values of the model.
MaxCell == 3
Cells ==
    {Cell("NoneType", 0, ""), Cell("nan", 0, ""), Cell("Timestamp", 0, "2025-03-28")}
    \cup {Cell("int", n, "") : n \in (0 - MaxCell)..MaxCell}
    \cup {Cell("float", h, "") : h \in {0 - 250, 0 - 99, 0, 50, 199, 7500}}
    \cup {Cell("str", 0, t) : t \in {"12", "3.7", "abc", "N/A", ""}}

(***************************************************************************)
(* Calls of the pure functions                                             *)
(***************************************************************************)

InitUnit ==
    /\ pc = "call"
    /\ \/ \E a \in (0 - MaxActual)..MaxActual, b \in (0 - MaxActual)..MaxActual,
             t \in 0..MaxThreshold :
             args = [fn |-> "normalize_metric", actual_value |-> a,
                     other_value |-> b, max_threshold |-> t]
       \/ \E s \in 0..(100 * 100) :
             args = [fn |-> "calculate_dqi_category", dqi_score |-> s]
       \/ \E fn \in {"convert_int_for_db", "convert_float_for_db"}, x \in Cells :
             args = [fn |-> fn, value |-> x]
    /\ result = NONE
    /\ config = Shipped
    /\ subject_level_metrics = EmptyTable
    /\ subject_dqi_clean_status = EmptyTable
    /\ dataframes = <<>>
    /\ filled_subject_metrics = <<>>
    /\ database = <<>>
    /\ history = <<>>

\* normalize_metric on args.actual_value and on args.other_value, with the
\* same threshold.
CallNormalizeMetric ==
    /\ pc = "call"
    /\ args.fn = "normalize_metric"
    /\ result' = [value |-> normalize_metric(args.actual_value, args.max_threshold),
                  other |-> normalize_metric(args.other_value, args.max_threshold)]
    /\ pc' = "return"
    /\ UNCHANGED <<args, config, subject_level_metrics,
                   subject_dqi_clean_status, dataframes, filled_subject_metrics>>
    /\ history' = Append(history, "CallNormalizeMetric")
    /\ UNCHANGED database

\* calculate_dqi_category on a score given in hundredths.
CallCalculateDqiCategory ==
    /\ pc = "call"
    /\ args.fn = "calculate_dqi_category"
    /\ result' = calculate_dqi_category(args.dqi_score * (ScoreUnit \div 100))
    /\ pc' = "return"
    /\ UNCHANGED <<args, config, subject_level_metrics,
                   subject_dqi_clean_status, dataframes, filled_subject_metrics>>
    /\ history' = Append(history, "CallCalculateDqiCategory")
    /\ UNCHANGED database

\* convert_int_for_db or convert_float_for_db on one cell value.
CallConvertForDb ==
    /\ pc = "call"
    /\ args.fn \in {"convert_int_for_db", "convert_float_for_db"}
    /\ result' = IF args.fn = "convert_int_for_db"
                 THEN convert_int_for_db(args.value)
                 ELSE convert_float_for_db(args.value)
    /\ pc' = "return"
    /\ UNCHANGED <<args, config, subject_level_metrics,
                   subject_dqi_clean_status, dataframes, filled_subject_metrics>>
    /\ history' = Append(history, "CallConvertForDb")
    /\ UNCHANGED database

NextUnit == CallNormalizeMetric \/ CallCalculateDqiCategory \/ CallConvertForDb

SpecUnit == InitUnit /\ [][NextUnit]_vars

(***************************************************************************)
(* calculate_all_dqi_and_clean_status                                      *)
(***************************************************************************)

InitScore ==
    /\ pc = "calculate_dqi"
    /\ args = <<>>
    /\ result = NONE
    /\ config \in Configs
    /\ subject_level_metrics \in [ScoreKeys -> MetricRows]
    /\ subject_dqi_clean_status = EmptyTable
    /\ dataframes = <<>>
    /\ filled_subject_metrics = <<>>
    /\ database = <<>>
    /\ history = <<>>

\* INSERT OR REPLACE of `rows` (key -> row) into `table`.
InsertOrReplace(table, rows) ==
    [k \in DOMAIN table \cup DOMAIN rows |->
        IF k \in DOMAIN rows THEN rows[k] ELSE table[k]]

\* UPDATE table SET <the columns of rows[k]> WHERE key = k, for each k.
UpdateClean(table, rows) ==
    [k \in DOMAIN table |->
        IF k \in DOMAIN rows
        THEN [table[k] EXCEPT !.clean_status = rows[k].clean_status,
                              !.criteria_met = rows[k].criteria_met,
                              !.criteria_total = rows[k].criteria_total,
                              !.failing_criteria = rows[k].failing_criteria]
        ELSE table[k]]

\* calculate_dqi_for_all_subjects: every row is scored, then all results are
\* written and committed; a TypeError in the loop, or the database failing
\* (sqlite3.OperationalError) before the commit, leaves the table untouched
\* and ends calculate_all_dqi_and_clean_status.
calculate_dqi_for_all_subjects ==
    /\ pc = "calculate_dqi"
    /\ \E fault \in BOOLEAN :
           IF fault \/ \E k \in DOMAIN subject_level_metrics :
                           DqiRaises(subject_level_metrics[k])
           THEN /\ pc' = "raised"
                /\ UNCHANGED subject_dqi_clean_status
           ELSE /\ subject_dqi_clean_status' =
                      InsertOrReplace(subject_dqi_clean_status,
                          [k \in DOMAIN subject_level_metrics |->
                              DqiRow(subject_level_metrics[k], config)])
                /\ pc' = "calculate_clean_status"
    /\ UNCHANGED <<args, result, config, subject_level_metrics, dataframes,
                   filled_subject_metrics>>
    /\ history' = Append(history, "calculate_dqi_for_all_subjects")
    /\ UNCHANGED database

\* calculate_clean_status_for_all_subjects, on a connection and in a
\* transaction of its own: when the database fails before its commit the
\* rows stay as calculate_dqi_for_all_subjects committed them.
calculate_clean_status_for_all_subjects ==
    /\ pc = "calculate_clean_status"
    /\ \E fault \in BOOLEAN :
           IF fault
           THEN /\ pc' = "raised"
                /\ UNCHANGED subject_dqi_clean_status
           ELSE /\ subject_dqi_clean_status' =
                      UpdateClean(subject_dqi_clean_status,
                          [k \in DOMAIN subject_level_metrics |->
                              CleanRow(subject_level_metrics[k])])
                /\ pc' = "done"
    /\ UNCHANGED <<args, result, config, subject_level_metrics, dataframes,
                   filled_subject_metrics>>
    /\ history' = Append(history, "calculate_clean_status_for_all_subjects")
    /\ UNCHANGED database

NextScore ==
    calculate_dqi_for_all_subjects \/ calculate_clean_status_for_all_subjects

SpecScore == InitScore /\ [][NextScore]_vars

(***************************************************************************)
(* The clean-status evaluator called on its own                            *)
(***************************************************************************)

\* calculate_clean_status_for_all_subjects takes no argument and reads the
\* database: it is called here on a database whose subject records are
\* persisted and where calculate_dqi_for_all_subjects has run (`scored`) or
\* has not.
InitEvaluator ==
    /\ pc = "calculate_clean_status"
    /\ args = <<>>
    /\ result = NONE
    /\ config = Shipped
    /\ subject_level_metrics \in [ScoreKeys -> MetricRows]
    /\ \E scored \in SUBSET ScoreKeys :
           /\ \A k \in scored : ~DqiRaises(subject_level_metrics[k])
           /\ subject_dqi_clean_status =
                  [k \in scored |-> DqiRow(subject_level_metrics[k], config)]
    /\ dataframes = <<>>
    /\ filled_subject_metrics = <<>>
    /\ database = <<>>
    /\ history = <<>>

NextEvaluator == calculate_clean_status_for_all_subjects

SpecEvaluator == InitEvaluator /\ [][NextEvaluator]_vars

(***************************************************************************)
(* Properties of the scoring engine and of the clean-status evaluator      *)
(***************************************************************************)

Returned(fn) == pc = "return" /\ args.fn = fn

\* C1: for every threshold > 0, normalize_metric(actual, threshold) lies in
\* [0,100] for every actual value, and is non-increasing in actual: of two
\* actual values, the smaller one never gets the smaller normalized score.
C1_NormalizeBoundedNonIncreasing ==
    (Returned("normalize_metric") /\ args.max_threshold > 0) =>
        /\ 0 <= result.value /\ result.value <= 100 * NormUnit
        /\ 0 <= result.other /\ result.other <= 100 * NormUnit
        /\ (args.actual_value <= args.other_value => result.value >= result.other)

C1_Witness ==
    /\ Returned("normalize_metric")
    /\ args.max_threshold > 0
    /\ 0 < args.actual_value
    /\ args.actual_value < args.other_value
    /\ args.other_value < args.max_threshold
    /\ result.value > result.other
    /\ result.other > 0

\* C2: with a threshold of 0, normalize_metric returns exactly 100 for every
\* actual value >= 0, also for actual > 0.
C2_ZeroThresholdIsPerfect ==
    (Returned("normalize_metric") /\ args.max_threshold = 0) =>
        /\ (args.actual_value >= 0 => result.value = 100 * NormUnit)
        /\ (args.other_value >= 0 => result.other = 100 * NormUnit)

C2_Witness ==
    /\ Returned("normalize_metric")
    /\ args.max_threshold = 0
    /\ args.actual_value > 0
    /\ result.value = 100 * NormUnit

\* C3: every stored composite dqi_score is in [0,100] and every one of the
\* nine stored normalized sub-scores is in [0,100], for every subject row and
\* every weight/threshold configuration.
C3_ScoresInRange ==
    \A k \in DOMAIN subject_dqi_clean_status :
        LET r == subject_dqi_clean_status[k]
        IN  /\ 0 <= r.dqi_score /\ r.dqi_score <= 100 * 100
            /\ \A d \in Dimensions : 0 <= r.norm[d] /\ r.norm[d] <= 100 * 100

\* The weighted sum of a subject's sub-scores, before the cap.
UncappedScore(k) ==
    WeightedScore(NormalizedScores(DqiQuery(subject_level_metrics[k]),
                                   config.thresholds),
                  config.weights)

\* The cap acted: the weighted sum was above 100 and 100 was stored.
C3_Witness ==
    \E k \in DOMAIN subject_dqi_clean_status :
        /\ UncappedScore(k) > 100 * ScoreUnit
        /\ subject_dqi_clean_status[k].dqi_score = 100 * 100

RECURSIVE SumWeights(_, _)
SumWeights(names, w) ==
    IF names = <<>> THEN 0 ELSE w[Head(names)] + SumWeights(Tail(names), w)

\* C4: the weights the scoring engine uses (DQI_WEIGHTS) sum to 1.0, so the
\* weighted sum of nine sub-scores in [0,100] never exceeds 100 (floating
\* point drift aside, which the fixed-point model does not have).
C4_WeightsSumToOne ==
    (config = Shipped /\ pc = "done") =>
        /\ SumWeights(DimensionNames, config.weights) = WeightUnit
        /\ \A k \in DOMAIN subject_dqi_clean_status :
               UncappedScore(k) <= 100 * ScoreUnit

\* C5: calculate_dqi_category is total on [0,100] and assigns the tier with
\* inclusive lower bounds: >= 90 Excellent, >= 75 Good, >= 60 Acceptable,
\* >= 40 Needs Attention, else Critical (scores in hundredths).
C5_CategoryTiers ==
    Returned("calculate_dqi_category") =>
        LET s == args.dqi_score
        IN  /\ result \in {"Excellent", "Good", "Acceptable", "Needs Attention",
                           "Critical"}
            /\ (result = "Excellent") = (s >= 9000)
            /\ (result = "Good") = (7500 <= s /\ s < 9000)
            /\ (result = "Acceptable") = (6000 <= s /\ s < 7500)
            /\ (result = "Needs Attention") = (4000 <= s /\ s < 6000)
            /\ (result = "Critical") = (s < 4000)

\* A score exactly on a lower bound takes the upper tier.
C5_Witness ==
    /\ Returned("calculate_dqi_category")
    /\ args.dqi_score = 7500
    /\ result = "Good"

\* The raw dimension each criterion looks at, null taken as 0.
RawDimension(row) ==
    [no_missing_visits |-> OrZero(row.missing_visits),
     no_missing_pages |-> OrZero(row.missing_page),
     no_open_queries |-> OrZero(row.total_queries),
     no_non_conformant_data |-> OrZero(row.pages_non_conformant),
     no_uncoded_terms |-> OrZero(row.uncoded_terms),
     all_forms_verified |-> OrZero(row.crfs_require_verification),
     all_forms_signed |-> OrZero(row.crfs_never_signed),
     no_broken_signatures |-> OrZero(row.broken_signatures),
     no_lab_issues |-> OrZero(row.open_issues_in_lnr),
     no_edrr_issues |-> OrZero(row.open_issues_edrr),
     no_safety_issues |-> OrZero(row.esae_dashboard_dm)
                          + OrZero(row.esae_dashboard_safety)]

\* The evaluation order of the eleven criteria.
EvaluationOrder ==
    <<"no_missing_visits", "no_missing_pages", "no_open_queries",
      "no_non_conformant_data", "no_uncoded_terms", "all_forms_verified",
      "all_forms_signed", "no_broken_signatures", "no_lab_issues",
      "no_edrr_issues", "no_safety_issues">>

InSeq(x, seq) == \E i \in 1..Len(seq) : seq[i] = x

\* C6: after the evaluator has run, each of the 11 criteria is recorded as
\* met (not listed as failing) iff its raw dimension, null taken as 0, is
\* zero, and the status is Clean iff all 11 dimensions are zero.
C6_CriteriaAndStatus ==
    pc = "done" =>
        \A k \in DOMAIN subject_level_metrics :
            LET raw == RawDimension(subject_level_metrics[k])
                r == subject_dqi_clean_status[k]
            IN  /\ \A i \in 1..Len(EvaluationOrder) :
                       LET c == EvaluationOrder[i]
                       IN  (~InSeq(c, r.failing_criteria)) = (raw[c] = 0)
                /\ (r.clean_status = "Clean") =
                       (\A i \in 1..Len(EvaluationOrder) : raw[EvaluationOrder[i]] = 0)
                /\ r.clean_status \in {"Clean", "Not Clean"}

\* A subject with no DM review but a safety review is Not Clean.
C6_Witness ==
    /\ pc = "done"
    /\ \E k \in DOMAIN subject_level_metrics :
           /\ subject_level_metrics[k].esae_dashboard_dm = 0
           /\ subject_level_metrics[k].esae_dashboard_safety > 0
           /\ subject_dqi_clean_status[k].clean_status = "Not Clean"
           /\ subject_dqi_clean_status[k].failing_criteria = <<"no_safety_issues">>

RECURSIVE NonZeroInOrder(_, _)
NonZeroInOrder(names, raw) ==
    IF names = <<>> THEN <<>>
    ELSE (IF raw[Head(names)] = 0 THEN <<>> ELSE <<Head(names)>>)
         \o NonZeroInOrder(Tail(names), raw)

\* C7: criteria_met is the number of criteria that hold, criteria_total is
\* 11, failing_criteria lists exactly the criteria that do not hold, in the
\* evaluation order (empty when Clean), so criteria_met plus the number of
\* failing names is 11; a row whose only non-zero dimension is
\* missing_visits gets criteria_met = 10 and failing = [no_missing_visits].
C7_CountsAndFailingList ==
    pc = "done" =>
        \A k \in DOMAIN subject_level_metrics :
            LET raw == RawDimension(subject_level_metrics[k])
                r == subject_dqi_clean_status[k]
                zero == {i \in 1..Len(EvaluationOrder) : raw[EvaluationOrder[i]] = 0}
            IN  /\ r.criteria_total = 11
                /\ r.criteria_met = Cardinality(zero)
                /\ r.failing_criteria = NonZeroInOrder(EvaluationOrder, raw)
                /\ r.criteria_met + Len(r.failing_criteria) = 11
                /\ (r.clean_status = "Clean" => r.failing_criteria = <<>>)
                /\ ((raw.no_missing_visits # 0
                     /\ Cardinality(zero) = 10) =>
                        /\ r.criteria_met = 10
                        /\ r.failing_criteria = <<"no_missing_visits">>)

\* Two criteria fail and both are listed, in order.
C7_Witness ==
    /\ pc = "done"
    /\ \E k \in DOMAIN subject_level_metrics :
           /\ subject_level_metrics[k].missing_visits = 1
           /\ subject_level_metrics[k].open_issues_edrr = 13
           /\ subject_dqi_clean_status[k].criteria_met = 9
           /\ subject_dqi_clean_status[k].failing_criteria =
                  <<"no_missing_visits", "no_edrr_issues">>

(***************************************************************************)
(* Reconciliation engine (fill_missing_values.py) and the site-ID backfill *)
(* of extract_data.py.  A table is a sequence of rows; a row is a record.  *)
(***************************************************************************)

IsBlankSite(site) == site = NONE \/ site = "-"

\* groupby([...keys...]) leaves out the rows with a null key.
HasSiteKey(r) == r.project # NONE /\ r.site # NONE /\ r.subject # NONE
HasSubjectKey(r) == r.project # NONE /\ r.subject # NONE

SameSiteKey(r, row) ==
    r.project = row.project /\ r.site = row.site /\ r.subject = row.subject
SameSubjectKey(r, row) ==
    r.project = row.project /\ r.subject = row.subject

Indices(table, Test(_)) == {j \in 1..Len(table) : Test(table[j])}

SizeBySiteKey_IgnoringSite(table, row) ==
    Cardinality(Indices(table, LAMBDA r : HasSiteKey(r) /\ SameSubjectKey(r, row)))

\* groupby(['Project Name', 'Site ID', 'Subject ID']).size(), left-merged on
\* the same three columns, NaN filled with 0.
SizeBySiteKey(table, row) ==
    Cardinality(Indices(table, LAMBDA r : HasSiteKey(r) /\ SameSiteKey(r, row)))

\* site_lookup: (Project Name, Subject ID) -> Site ID; for a key that occurs
\* twice the last row wins.
HasLookup(subject_metrics, r) ==
    \E j \in 1..Len(subject_metrics) : SameSubjectKey(subject_metrics[j], r)

Lookup(subject_metrics, r) ==
    LET js == {j \in 1..Len(subject_metrics) : SameSubjectKey(subject_metrics[j], r)}
        last == CHOOSE j \in js : \A i \in js : i <= j
    IN  subject_metrics[last].site

\* populate_site_id_in_dataframes on one table: nothing when no row lacks a
\* site; otherwise every row takes site_lookup.get(key, its own site).
PopulateTable(subject_metrics, table) ==
    IF \A j \in 1..Len(table) : table[j].site # NONE
    THEN table
    ELSE [j \in 1..Len(table) |->
             IF HasLookup(subject_metrics, table[j])
             THEN [table[j] EXCEPT !.site = Lookup(subject_metrics, table[j])]
             ELSE table[j]]

PopulateEsae_FirstBlankOnly(subject_metrics, table) ==
    [j \in 1..Len(table) |->
        IF /\ IsBlankSite(table[j].site) /\ HasLookup(subject_metrics, table[j])
           /\ \A i \in 1..(j - 1) : ~IsBlankSite(table[i].site)
        THEN [table[j] EXCEPT !.site = Lookup(subject_metrics, table[j])]
        ELSE table[j]]

\* populate_site_id_in_esae on one table: a row whose site is NaN, None or
\* '-' takes the looked-up site when its key is in the lookup.
PopulateEsae(subject_metrics, table) ==
    [j \in 1..Len(table) |->
        IF IsBlankSite(table[j].site) /\ HasLookup(subject_metrics, table[j])
        THEN [table[j] EXCEPT !.site = Lookup(subject_metrics, table[j])]
        ELSE table[j]]

\* The visit names sv_latest may hold for the key of `row`: the first
\* non-null Visit Name of the group in descending Visit Date order (NaT
\* last); rows with the same date may come in either order.
LatestVisitNames(sv, row) ==
    LET named == Indices(sv, LAMBDA r : HasSiteKey(r) /\ SameSiteKey(r, row)
                                         /\ r.visit_name # NONE)
    IN  IF named = {} THEN {NONE}
        ELSE {sv[j].visit_name :
                 j \in {j \in named : \A i \in named : sv[i].visit_date <= sv[j].visit_date}}

\* The possible sv_latest tables, as a choice of one name per staging row
\* that rows of one key share.
SvLatestChoices(df, sv) ==
    {c \in [1..Len(df) -> UNION {LatestVisitNames(sv, df[i]) : i \in 1..Len(df)} \cup {NONE}] :
        /\ \A i \in 1..Len(df) : c[i] \in LatestVisitNames(sv, df[i])
        /\ \A i, j \in 1..Len(df) : SameSiteKey(df[i], df[j]) => c[i] = c[j]}

fill_latest_visit_and_status(df, sv_latest) ==
    [i \in 1..Len(df) |->
        IF df[i].latest_visit = NONE \/ df[i].latest_visit = ""
        THEN [df[i] EXCEPT !.latest_visit = sv_latest[i]]
        ELSE df[i]]

fill_missing_visits(df, visit_projection) ==
    [i \in 1..Len(df) |->
        [df[i] EXCEPT !.missing_visits = SizeBySiteKey(visit_projection, df[i])]]

fill_missing_pages(df, missing_pages) ==
    [i \in 1..Len(df) |->
        [df[i] EXCEPT !.missing_page = SizeBySiteKey(missing_pages, df[i])]]

\* astype(str).str.lower() on the Require Coding values of the model.
StrLower(v) ==
    CASE v = "Yes" -> "yes"
      [] v = "YES" -> "yes"
      [] v = "No" -> "no"
      [] v = NONE -> "nan"
      [] OTHER -> v

coded_mask(r) == r.coding_status # NONE

uncoded_mask_OnlyWhenNotCoded(r) ==
    StrLower(r.require_coding) = "yes" /\ r.coding_status = NONE

uncoded_mask(r) == StrLower(r.require_coding) = "yes" \/ r.coding_status = NONE

fill_coded_uncoded_terms(df, global_meddra, global_whodd) ==
    LET combined_coding == global_meddra \o global_whodd
    IN  [i \in 1..Len(df) |->
            [df[i] EXCEPT
                !.coded_terms =
                    Cardinality(Indices(combined_coding,
                        LAMBDA r : HasSubjectKey(r) /\ SameSubjectKey(r, df[i])
                                   /\ coded_mask(r))),
                !.uncoded_terms =
                    Cardinality(Indices(combined_coding,
                        LAMBDA r : HasSubjectKey(r) /\ SameSubjectKey(r, df[i])
                                   /\ uncoded_mask(r)))]]

fill_open_issues_lnr(df, missing_lab) ==
    [i \in 1..Len(df) |->
        [df[i] EXCEPT !.open_issues_in_lnr = SizeBySiteKey(missing_lab, df[i])]]

RECURSIVE Flatten(_)
Flatten(seqs) == IF seqs = <<>> THEN <<>> ELSE Head(seqs) \o Flatten(Tail(seqs))

EdrrValue_RowCount(compiled_edrr, row, j) ==
    Cardinality(Indices(compiled_edrr, LAMBDA r : SameSubjectKey(r, row)))

\* The value a subject row takes from the EDRR row j it is merged with:
\* 'Total Open Issue Count', NaN filled with 0.
EdrrValue(compiled_edrr, row, j) == OrZero(compiled_edrr[j].total_open_issue_count)

\* The left merge on (Project Name, Subject ID) with the EDRR rows
\* themselves: a subject row comes out once per EDRR row of its key, and once
\* with 0 when there is none.
fill_open_issues_edrr(df, compiled_edrr) ==
    Flatten([i \in 1..Len(df) |->
        LET matches == SelectSeq([j \in 1..Len(compiled_edrr) |-> j],
                           LAMBDA j : SameSubjectKey(compiled_edrr[j], df[i]))
        IN  IF matches = <<>>
            THEN <<[df[i] EXCEPT !.open_issues_edrr = 0]>>
            ELSE [m \in 1..Len(matches) |->
                     [df[i] EXCEPT !.open_issues_edrr =
                         EdrrValue(compiled_edrr, df[i], matches[m])]]])

fill_inactivated_forms(df, inactivated_forms) ==
    [i \in 1..Len(df) |->
        [df[i] EXCEPT !.inactivated_forms_folders =
            SizeBySiteKey(inactivated_forms, df[i])]]

fill_esae_dashboard(df, esae_dm, esae_safety) ==
    [i \in 1..Len(df) |->
        [df[i] EXCEPT !.esae_dashboard_dm = SizeBySiteKey(esae_dm, df[i]),
                      !.esae_dashboard_safety = SizeBySiteKey(esae_safety, df[i])]]

\* set(x.dropna().unique()) of the form names of the row's group.
FormSet(table, row) ==
    {table[j].form_name :
        j \in Indices(table, LAMBDA r : HasSiteKey(r) /\ SameSiteKey(r, row)
                                        /\ r.form_name # NONE)}

\* Whether the left merge found a group for the row (pd.notna of the set).
HasGroup(table, row) ==
    Indices(table, LAMBDA r : HasSiteKey(r) /\ SameSiteKey(r, row)) # {}

fill_crfs_with_queries_and_nonconformant(df, non_conformant, query_report) ==
    [i \in 1..Len(df) |->
        [df[i] EXCEPT !.crfs_with_queries_nc =
            IF HasGroup(non_conformant, df[i]) /\ HasGroup(query_report, df[i])
            THEN Cardinality(FormSet(non_conformant, df[i])
                             \cap FormSet(query_report, df[i]))
            ELSE 0]]

fill_crfs_without_queries_ZeroWithoutQueryReport(df, non_conformant, query_report) ==
    [i \in 1..Len(df) |->
        [df[i] EXCEPT !.crfs_without_queries_nc =
            IF HasGroup(non_conformant, df[i]) /\ HasGroup(query_report, df[i])
            THEN Cardinality(FormSet(non_conformant, df[i])
                             \ FormSet(query_report, df[i]))
            ELSE 0]]

fill_crfs_without_queries(df, non_conformant, query_report) ==
    [i \in 1..Len(df) |->
        [df[i] EXCEPT !.crfs_without_queries_nc =
            IF HasGroup(non_conformant, df[i]) /\ HasGroup(query_report, df[i])
            THEN Cardinality(FormSet(non_conformant, df[i])
                             \ FormSet(query_report, df[i]))
            ELSE IF HasGroup(non_conformant, df[i])
                 THEN Cardinality(FormSet(non_conformant, df[i]))
                 ELSE 0]]

calculate_percentage_clean_crf_Truncating(df) ==
    [i \in 1..Len(df) |->
        LET pages_entered == OrZero(df[i].pages_entered)
            pages_nc == OrZero(df[i].pages_non_conformant)
        IN  [df[i] EXCEPT !.percentage_clean_crf =
                IF pages_entered > 0
                THEN FloorDiv((pages_entered - pages_nc) * 100 * PctUnit, pages_entered)
                ELSE 0]]

\* Percentage Clean Entered CRF, in hundredths of a percent.
calculate_percentage_clean_crf(df) ==
    [i \in 1..Len(df) |->
        LET pages_entered == OrZero(df[i].pages_entered)
            pages_nc == OrZero(df[i].pages_non_conformant)
        IN  [df[i] EXCEPT !.percentage_clean_crf =
                IF pages_entered > 0
                THEN Round2(FloorDiv((pages_entered - pages_nc) * 100 * NormUnit,
                                     pages_entered), NormUnit)
                ELSE 0]]

\* fill_all_missing_data, given the sv_latest table the sort produced.
FillAll(d, sv_latest) ==
    LET s1 == fill_latest_visit_and_status(d.Subject_Level_Metrics, sv_latest)
        s2 == fill_missing_visits(s1, d.Visit_Projection_Tracker)
        s3 == fill_missing_pages(s2, d.All_Pages_Missing)
        s4 == fill_coded_uncoded_terms(s3, d.GlobalCoding_MedDRA, d.GlobalCoding_WHODD)
        s5 == fill_open_issues_lnr(s4, d.Missing_Lab)
        s6 == fill_open_issues_edrr(s5, d.Compiled_EDRR)
        s7 == fill_inactivated_forms(s6, d.Inactivated_Forms)
        s8 == fill_esae_dashboard(s7, d.SAE_Dashboard_DM, d.SAE_Dashboard_Safety)
        s9 == fill_crfs_with_queries_and_nonconformant(s8, d.Non_conformant, d.Query_Report)
        s10 == fill_crfs_without_queries(s9, d.Non_conformant, d.Query_Report)
    IN  calculate_percentage_clean_crf(s10)

(***************************************************************************)
(* The extracted tables of one study                                       *)
(***************************************************************************)

\* At most MaxEventRows event rows in all event tables together.
MaxEventRows == 2

Project == "Study 1"

Key(site, subject) == [project |-> Project, site |-> site, subject |-> subject]

\* A staging subject record: `p` gives the staging (possibly stale) values.
StagingRow(site, subject, p) ==
    [project |-> Project, site |-> site, subject |-> subject,
     latest_visit |-> p.latest_visit,
     missing_visits |-> p.count, missing_page |-> p.count,
     coded_terms |-> p.count, uncoded_terms |-> p.count,
     open_issues_in_lnr |-> p.count, open_issues_edrr |-> p.count,
     inactivated_forms_folders |-> p.count,
     esae_dashboard_dm |-> p.count, esae_dashboard_safety |-> p.count,
     pages_entered |-> p.pages_entered,
     pages_non_conformant |-> p.pages_non_conformant,
     crfs_with_queries_nc |-> p.count, crfs_without_queries_nc |-> p.count,
     percentage_clean_crf |-> p.percentage_clean_crf]

Untouched == [latest_visit |-> NONE, count |-> 0, pages_entered |-> 0,
              pages_non_conformant |-> 0, percentage_clean_crf |-> 0]
Stale == [latest_visit |-> "", count |-> 7, pages_entered |-> 100,
          pages_non_conformant |-> 25, percentage_clean_crf |-> 100 * 100]
Visited == [latest_visit |-> "Baseline", count |-> NULL, pages_entered |-> 3,
            pages_non_conformant |-> 1, percentage_clean_crf |-> NULL]
Unentered == [latest_visit |-> NONE, count |-> 7, pages_entered |-> NULL,
              pages_non_conformant |-> NULL, percentage_clean_crf |-> NULL]
\* More pages reported non-conformant than entered.
Overrun == [latest_visit |-> "Baseline", count |-> 0, pages_entered |-> 3,
            pages_non_conformant |-> 5, percentage_clean_crf |-> 100 * 100]

\* The Subject_Level_Metrics sheets of the model: keys are unique.
StagingTables ==
    {<<StagingRow("S1", "A", p), StagingRow("S2", "B", Untouched)>> :
        p \in {Untouched, Stale, Visited}}
    \cup {<<StagingRow("S1", "A", Unentered)>>,
          <<StagingRow("S1", "A", Overrun)>>,
          <<StagingRow("S1", "A", Stale), StagingRow("S2", "A", Visited)>>}

Coding(subject, coding_status, require_coding) ==
    [project |-> Project, subject |-> subject,
     coding_status |-> coding_status, require_coding |-> require_coding]

Edrr(subject, n) ==
    [project |-> Project, subject |-> subject, total_open_issue_count |-> n]

Form(site, subject, form_name) ==
    [project |-> Project, site |-> site, subject |-> subject, form_name |-> form_name]

Visit(site, subject, visit_date, visit_name) ==
    [project |-> Project, site |-> site, subject |-> subject,
     visit_date |-> visit_date, visit_name |-> visit_name]

\* The event rows of the model, each with the table it belongs to.
EventRowKinds ==
    << <<"Visit_Projection_Tracker", Key("S1", "A")>>,
       <<"Visit_Projection_Tracker", Key("S2", "A")>>,
       <<"Visit_Projection_Tracker", Key("S2", "B")>>,
       <<"All_Pages_Missing", Key("S1", "A")>>,
       <<"All_Pages_Missing", Key("S2", "A")>>,
       <<"All_Pages_Missing", Key("S2", "B")>>,
       <<"Missing_Lab", Key("S1", "A")>>,
       <<"Missing_Lab", Key("S2", "A")>>,
       <<"Missing_Lab", Key(NONE, "A")>>,
       <<"Missing_Lab", Key(NONE, "C")>>,
       <<"Inactivated_Forms", Key("S1", "A")>>,
       <<"Inactivated_Forms", Key("S2", "B")>>,
       <<"Inactivated_Forms", Key(NONE, "A")>>,
       <<"Inactivated_Forms", Key(NONE, "C")>>,
       <<"SAE_Dashboard_DM", Key("S1", "A")>>,
       <<"SAE_Dashboard_DM", Key(NONE, "A")>>,
       <<"SAE_Dashboard_DM", Key("-", "A")>>,
       <<"SAE_Dashboard_DM", Key(NONE, "C")>>,
       <<"SAE_Dashboard_Safety", Key("S2", "A")>>,
       <<"SAE_Dashboard_Safety", Key(NONE, "B")>>,
       <<"SAE_Dashboard_Safety", Key("-", "C")>>,
       <<"Compiled_EDRR", Edrr("A", 2)>>,
       <<"Compiled_EDRR", Edrr("A", 1)>>,
       <<"Compiled_EDRR", Edrr("A", NULL)>>,
       <<"Compiled_EDRR", Edrr("B", 1)>>,
       <<"GlobalCoding_MedDRA", Coding("A", NONE, "Yes")>>,
       <<"GlobalCoding_MedDRA", Coding("A", "Coded Term", "Yes")>>,
       <<"GlobalCoding_MedDRA", Coding("A", "Coded Term", "No")>>,
       <<"GlobalCoding_MedDRA", Coding("A", NONE, "No")>>,
       <<"GlobalCoding_MedDRA", Coding("B", "Coded Term", "YES")>>,
       <<"GlobalCoding_WHODD", Coding("A", "Coded Term", "yes")>>,
       <<"GlobalCoding_WHODD", Coding("A", "UnCoded Term", NONE)>>,
       <<"GlobalCoding_WHODD", Coding("B", NONE, "No")>>,
       <<"Non_conformant", Form("S1", "A", "Vitals")>>,
       <<"Non_conformant", Form("S1", "A", "Labs")>>,
       <<"Non_conformant", Form("S2", "B", "Vitals")>>,
       <<"Query_Report", Form("S1", "A", "Vitals")>>,
       <<"Query_Report", Form("S1", "A", "Dosing")>>,
       <<"Query_Report", Form("S2", "B", "Labs")>>,
       <<"SV", Visit("S1", "A", 1, "Screening")>>,
       <<"SV", Visit("S1", "A", 2, "Week 4")>>,
       <<"SV", Visit("S1", "A", 2, "Unscheduled")>>,
       <<"SV", Visit("S2", "B", 1, "Screening")>>,
       <<"SV", Visit("S1", "A", 3, NONE)>> >>

\* The rows of table `name` among `events`, in their order.
TableOf(events, name) ==
    LET mine == SelectSeq(events, LAMBDA e : e[1] = name)
    IN  [j \in 1..Len(mine) |-> mine[j][2]]

Extracted(staging, events) ==
    [Subject_Level_Metrics |-> staging,
     SV |-> TableOf(events, "SV"),
     Visit_Projection_Tracker |-> TableOf(events, "Visit_Projection_Tracker"),
     All_Pages_Missing |-> TableOf(events, "All_Pages_Missing"),
     GlobalCoding_MedDRA |-> TableOf(events, "GlobalCoding_MedDRA"),
     GlobalCoding_WHODD |-> TableOf(events, "GlobalCoding_WHODD"),
     Missing_Lab |-> TableOf(events, "Missing_Lab"),
     Compiled_EDRR |-> TableOf(events, "Compiled_EDRR"),
     Inactivated_Forms |-> TableOf(events, "Inactivated_Forms"),
     SAE_Dashboard_DM |-> TableOf(events, "SAE_Dashboard_DM"),
     SAE_Dashboard_Safety |-> TableOf(events, "SAE_Dashboard_Safety"),
     Non_conformant |-> TableOf(events, "Non_conformant"),
     Query_Report |-> TableOf(events, "Query_Report")]

\* At most MaxFormRows rows in the two form reports when no other event
\* table has a row.
MaxFormRows == 4

\* Every choice of at most `n` of the event rows `kinds` (a row may occur
\* twice), in the order of EventRowKinds.
ChoicesOf(kinds, max) ==
    UNION {{[i \in 1..n |-> EventRowKinds[idx[i]]] :
               idx \in {f \in [1..n -> kinds] :
                           \A i \in 1..n : i < n => f[i] <= f[i + 1]}} :
           n \in 0..max}

FormReportKinds ==
    {k \in 1..Len(EventRowKinds) :
        EventRowKinds[k][1] \in {"Non_conformant", "Query_Report"}}

EventChoices ==
    ChoicesOf(1..Len(EventRowKinds), MaxEventRows)
    \cup ChoicesOf(FormReportKinds, MaxFormRows)

InitRecon ==
    /\ pc = "populate_site_id_in_dataframes"
    /\ args = <<>>
    /\ result = NONE
    /\ config = Shipped
    /\ subject_level_metrics = EmptyTable
    /\ subject_dqi_clean_status = EmptyTable
    /\ \E staging \in StagingTables, events \in EventChoices :
           dataframes = Extracted(staging, events)
    /\ filled_subject_metrics = <<>>
    /\ database = <<>>
    /\ history = <<>>

\* The '... Site IDs still missing (no match found)' lines that
\* populate_site_id_in_dataframes prints: one per table that had a missing
\* site and still has one.
StillMissingNotices(before, after) ==
    LET Missing(table) == \E j \in 1..Len(table) : table[j].site = NONE
        Notice(name) == IF Missing(before[name]) /\ Missing(after[name])
                        THEN <<"Site IDs still missing in " \o name>>
                        ELSE <<>>
    IN  Notice("Inactivated_Forms") \o Notice("Missing_Lab")

\* extract_all_data, after the sheets are read: populate_site_id_in_dataframes.
populate_site_id_in_dataframes ==
    /\ pc = "populate_site_id_in_dataframes"
    /\ dataframes' =
          [dataframes EXCEPT
              !.Inactivated_Forms =
                  PopulateTable(dataframes.Subject_Level_Metrics, @),
              !.Missing_Lab =
                  PopulateTable(dataframes.Subject_Level_Metrics, @)]
    /\ pc' = "populate_site_id_in_esae"
    /\ UNCHANGED <<args, result, config, subject_level_metrics,
                   subject_dqi_clean_status, filled_subject_metrics>>
    /\ history' = Append(history, "populate_site_id_in_dataframes")
                       \o StillMissingNotices(dataframes, dataframes')
    /\ UNCHANGED database

populate_site_id_in_esae ==
    /\ pc = "populate_site_id_in_esae"
    /\ dataframes' =
          [dataframes EXCEPT
              !.SAE_Dashboard_DM =
                  PopulateEsae(dataframes.Subject_Level_Metrics, @),
              !.SAE_Dashboard_Safety =
                  PopulateEsae(dataframes.Subject_Level_Metrics, @)]
    /\ pc' = "fill_all_missing_data"
    /\ UNCHANGED <<args, result, config, subject_level_metrics,
                   subject_dqi_clean_status, filled_subject_metrics>>
    /\ history' = Append(history, "populate_site_id_in_esae")
    /\ UNCHANGED database

\* The order sort_values gives rows of equal Visit Date is not specified, but
\* it is a function of the SV table: `args` keeps the sv_latest it led to.
fill_all_missing_data ==
    /\ pc = "fill_all_missing_data"
    /\ \E sv_latest \in SvLatestChoices(dataframes.Subject_Level_Metrics, dataframes.SV) :
           /\ filled_subject_metrics' = FillAll(dataframes, sv_latest)
           /\ args' = [sv_latest |-> sv_latest]
    /\ pc' = "filled"
    /\ UNCHANGED <<result, config, subject_level_metrics,
                   subject_dqi_clean_status, dataframes>>
    /\ history' = Append(history, "fill_all_missing_data")
    /\ UNCHANGED database

\* A second run of populate_site_id_in_esae and fill_all_missing_data on the
\* same dataframes dict, whose eSAE tables the first run changed in place;
\* `result` takes the records it returns.
process_single_study_again ==
    /\ pc = "filled"
    /\ dataframes' =
          [dataframes EXCEPT
              !.SAE_Dashboard_DM =
                  PopulateEsae(dataframes.Subject_Level_Metrics, @),
              !.SAE_Dashboard_Safety =
                  PopulateEsae(dataframes.Subject_Level_Metrics, @)]
    /\ result' = FillAll(dataframes', args.sv_latest)
    /\ pc' = "refilled"
    /\ UNCHANGED <<args, config, subject_level_metrics,
                   subject_dqi_clean_status, filled_subject_metrics>>
    /\ history' = Append(history, "process_single_study_again")
    /\ UNCHANGED database

NextRecon ==
    \/ populate_site_id_in_dataframes
    \/ populate_site_id_in_esae
    \/ fill_all_missing_data
    \/ process_single_study_again

SpecRecon == InitRecon /\ [][NextRecon]_vars

(***************************************************************************)
(* Extraction of the subject sheet followed by the reconciliation          *)
(***************************************************************************)

\* astype(str) on a cell of the 'Latest Visit (SV)' column: an empty cell
\* (NaN) becomes the string 'nan'.
AsTypeStr(v) == IF v = NONE THEN "nan" ELSE v

\* str.replace(r'\s*\(\d+\)$', '', regex=True) on the strings of the model.
StripVisitCount(t) ==
    CASE t = "Week 4 (2)" -> "Week 4"
      [] t = "Baseline (1)" -> "Baseline"
      [] OTHER -> t

\* extract_cpid_edc_metrics on the data rows of the sheet.  The numeric cells
\* of the model are integers or empty, which pd.to_numeric(...).astype('Int64')
\* and astype(float) keep as they are.
extract_cpid_edc_metrics(sheet) ==
    [i \in 1..Len(sheet) |->
        [sheet[i] EXCEPT !.latest_visit = StripVisitCount(AsTypeStr(@))]]

\* A subject whose latest-visit cell carries the visit count.
Counted == [latest_visit |-> "Week 4 (2)", count |-> 0, pages_entered |-> 0,
            pages_non_conformant |-> 0, percentage_clean_crf |-> 0]

\* The data rows of the first sheet of CPID_EDC_Metrics.xlsx as read_excel
\* returns them: a cell is never the empty string.
SourceSheets ==
    {<<StagingRow("S1", "A", p), StagingRow("S2", "B", Untouched)>> :
        p \in {Untouched, Visited, Counted}}
    \cup {<<StagingRow("S1", "A", Unentered)>>,
          <<StagingRow("S1", "A", Overrun)>>,
          <<StagingRow("S1", "A", Counted), StagingRow("S2", "A", Untouched)>>}

VisitKinds == {k \in 1..Len(EventRowKinds) : EventRowKinds[k][1] = "SV"}

\* The study before extract_cpid_edc_metrics: the sheet is kept as
\* dataframes.CPID_EDC_Metrics_xlsx, Subject_Level_Metrics is still empty.
Unextracted(sheet, events) ==
    LET d == Extracted(<<>>, events)
    IN  [t \in DOMAIN d \cup {"CPID_EDC_Metrics_xlsx"} |->
            IF t = "CPID_EDC_Metrics_xlsx" THEN sheet ELSE d[t]]

InitPipeline ==
    /\ pc = "extract_cpid_edc_metrics"
    /\ args = <<>>
    /\ result = NONE
    /\ config = Shipped
    /\ subject_level_metrics = EmptyTable
    /\ subject_dqi_clean_status = EmptyTable
    /\ \E sheet \in SourceSheets, events \in ChoicesOf(VisitKinds, MaxEventRows) :
           dataframes = Unextracted(sheet, events)
    /\ filled_subject_metrics = <<>>
    /\ database = <<>>
    /\ history = <<>>

\* extract_all_data up to populate_site_id_in_dataframes: the subject sheet
\* is extracted.
extract_all_data ==
    /\ pc = "extract_cpid_edc_metrics"
    /\ dataframes' =
          [dataframes EXCEPT !.Subject_Level_Metrics =
              extract_cpid_edc_metrics(dataframes.CPID_EDC_Metrics_xlsx)]
    /\ pc' = "populate_site_id_in_dataframes"
    /\ history' = Append(history, "extract_cpid_edc_metrics")
    /\ UNCHANGED <<args, result, config, subject_level_metrics,
                   subject_dqi_clean_status, filled_subject_metrics, database>>

NextPipeline ==
    \/ extract_all_data
    \/ populate_site_id_in_dataframes
    \/ populate_site_id_in_esae
    \/ fill_all_missing_data

SpecPipeline == InitPipeline /\ [][NextPipeline]_vars

(***************************************************************************)
(* extract_all_data_parallel: the extraction tasks run on a pool of        *)
(* max_workers threads, the submitting thread collects their results with  *)
(* as_completed.  Here `dataframes` is all_dataframes, a mapping from table *)
(* name to table, and a table is named by the source it was read from.     *)
(***************************************************************************)

max_workers == 4

\* The keys of extraction_tasks, in submission order.
extraction_tasks ==
    <<"Subject_Level_Metrics", "Compiled_EDRR", "GlobalCoding_MedDRA",
      "GlobalCoding_WHODD", "Inactivated_Forms", "Missing_Lab",
      "Visit_Projection_Tracker">>

\* The keys of sheet_configs, in submission order.
sheet_configs ==
    <<"Query Report - Cumulative", "Non conformant", "PI Signature Report",
      "SDV", "Protocol Deviation", "CRF Freeze", "CRF UnFreeze", "CRF Locked",
      "CRF UnLocked", "SV">>

\* The tables of extract_esae_dashboard and of extract_missing_pages.
esae_sheets == {"SAE Dashboard_DM", "SAE Dashboard_Safety"}
missing_pages_sheets == {"All Pages Missing"}

\* What a task returns is a function of the file it reads.
TableRead(name) == "rows of " \o name

\* At most MaxFailures of the sources cannot be read (the task raises).
MaxFailures == 1

\* The sources that may be unreadable: in each pool one task that starts at
\* once and one that waits for a worker, and the eSAE workbook.
Sources ==
    {"Subject_Level_Metrics", "Missing_Lab", "Query Report - Cumulative", "SV",
     "eSAE_Dashboard_Standard_DM_Safety_Report.xlsx"}

\* executor.submit of every task: the pool starts the first max_workers.
Submitted(names) ==
    [i \in 1..Len(names) |-> IF i <= max_workers THEN "running" ELSE "queued"]

\* A worker ends task i and takes the next queued task, if any.
WorkerDone(futures, i) ==
    LET queued == {j \in 1..Len(futures) : futures[j] = "queued"}
    IN  [j \in 1..Len(futures) |->
            IF j = i THEN "done"
            ELSE IF queued # {} /\ j = CHOOSE q \in queued : \A r \in queued : q <= r
                 THEN "running"
                 ELSE futures[j]]

\* d[name] = table and d.update(e) on a dict.
Store(d, name, table) ==
    [k \in DOMAIN d \cup {name} |-> IF k = name THEN table ELSE d[k]]
Update(d, e) ==
    [k \in DOMAIN d \cup DOMAIN e |-> IF k \in DOMAIN e THEN e[k] ELSE d[k]]

Collected_FailureDropsAll(d, name, raised) ==
    IF raised THEN EmptyTable ELSE Store(d, name, TableRead(name))

\* The body of the as_completed loop for the future of `name`: its table is
\* stored under its name; an exception is printed and nothing is stored.
Collected(d, name, raised) ==
    IF raised THEN d ELSE Store(d, name, TableRead(name))

InitExtract ==
    /\ pc = "extract_all_data_parallel"
    /\ \E fails \in SubsetsUpTo(Sources, MaxFailures) :
           args = [fails |-> fails, futures |-> <<>>, sheets |-> EmptyTable,
                   overtaken |-> FALSE]
    /\ result = NONE
    /\ config = Shipped
    /\ subject_level_metrics = EmptyTable
    /\ subject_dqi_clean_status = EmptyTable
    /\ dataframes = EmptyTable
    /\ filled_subject_metrics = <<>>
    /\ database = <<>>
    /\ history = <<>>

\* The with-block of extract_all_data_parallel is entered: the seven tasks
\* are submitted.
submit_extraction_tasks ==
    /\ pc = "extract_all_data_parallel"
    /\ args' = [args EXCEPT !.futures = Submitted(extraction_tasks)]
    /\ pc' = "as_completed"
    /\ UNCHANGED <<result, config, subject_level_metrics, subject_dqi_clean_status,
                   dataframes, filled_subject_metrics, database, history>>

\* A worker thread of either pool ends its task; it writes nothing but its
\* future.
worker_completes ==
    /\ pc \in {"as_completed", "sheets_as_completed"}
    /\ \E i \in 1..Len(args.futures) :
           /\ args.futures[i] = "running"
           /\ args' = [args EXCEPT
                  !.futures = WorkerDone(@, i),
                  !.overtaken = @ \/ \E j \in 1..(i - 1) : args.futures[j] = "running"]
    /\ UNCHANGED <<pc, result, config, subject_level_metrics,
                   subject_dqi_clean_status, dataframes, filled_subject_metrics,
                   database, history>>

\* One turn of the as_completed loop of extract_all_data_parallel, on any
\* future that is done; after the last one extract_cpid_other_sheets is
\* called.
as_completed_extraction ==
    /\ pc = "as_completed"
    /\ \E i \in 1..Len(args.futures) :
           /\ args.futures[i] = "done"
           /\ dataframes' = Collected(dataframes, extraction_tasks[i],
                                      extraction_tasks[i] \in args.fails)
           /\ args' = [args EXCEPT !.futures[i] = "yielded"]
           /\ pc' = IF \A j \in 1..Len(args.futures) : j # i => args.futures[j] = "yielded"
                    THEN "extract_cpid_other_sheets" ELSE "as_completed"
    /\ UNCHANGED <<result, config, subject_level_metrics, subject_dqi_clean_status,
                   filled_subject_metrics, database, history>>

\* extract_cpid_other_sheets submits one read_excel per sheet.
submit_sheets ==
    /\ pc = "extract_cpid_other_sheets"
    /\ args' = [args EXCEPT !.futures = Submitted(sheet_configs),
                            !.sheets = EmptyTable]
    /\ pc' = "sheets_as_completed"
    /\ UNCHANGED <<result, config, subject_level_metrics, subject_dqi_clean_status,
                   dataframes, filled_subject_metrics, database, history>>

\* One turn of the as_completed loop of extract_cpid_other_sheets, into its
\* local dict.
as_completed_sheet ==
    /\ pc = "sheets_as_completed"
    /\ \E i \in 1..Len(args.futures) :
           /\ args.futures[i] = "done"
           /\ args' = [args EXCEPT
                  !.futures[i] = "yielded",
                  !.sheets = Collected(@, sheet_configs[i],
                                       sheet_configs[i] \in args.fails)]
           /\ pc' = IF \A j \in 1..Len(args.futures) : j # i => args.futures[j] = "yielded"
                    THEN "sequential" ELSE "sheets_as_completed"
    /\ UNCHANGED <<result, config, subject_level_metrics, subject_dqi_clean_status,
                   dataframes, filled_subject_metrics, database, history>>

\* The rest of extract_all_data_parallel, on the submitting thread: the
\* sheets, the eSAE tables and the missing-pages table are added, each
\* unless its extraction raised, and the mapping is returned.
update_and_return ==
    /\ pc = "sequential"
    /\ LET d1 == Update(dataframes, args.sheets)
           d2 == IF "eSAE_Dashboard_Standard_DM_Safety_Report.xlsx" \in args.fails
                 THEN d1
                 ELSE Update(d1, [n \in esae_sheets |-> TableRead(n)])
           d3 == IF "Missing_Pages_Report.xlsx" \in args.fails
                 THEN d2
                 ELSE Update(d2, [n \in missing_pages_sheets |-> TableRead(n)])
       IN  /\ dataframes' = d3
           /\ result' = d3
    /\ pc' = "returned"
    /\ UNCHANGED <<args, config, subject_level_metrics, subject_dqi_clean_status,
                   filled_subject_metrics, database, history>>

NextExtract ==
    \/ submit_extraction_tasks
    \/ worker_completes
    \/ as_completed_extraction
    \/ submit_sheets
    \/ as_completed_sheet
    \/ update_and_return

SpecExtract == InitExtract /\ [][NextExtract]_vars

(***************************************************************************)
(* Persistence (data_insertion.py) and the single-study run                *)
(* (process_single_study.py)                                               *)
(***************************************************************************)

\* A numeric staging/reconciled value as a cell: NaN or an int.
IntCell(v) == IF v = NULL THEN Cell("nan", 0, "") ELSE Cell("int", v, "")
FloatCell(v) == IF v = NULL THEN Cell("nan", 0, "") ELSE Cell("float", v, "")

KeyOf(r) == <<r.project, r.site, r.subject>>

\* One tuple of prepare_subject_level_metrics_data.  The staging sheet of the
\* model has no query, signature, verification or deviation columns:
\* row.get() of those is None.
PersistedRow(r) ==
    [project |-> r.project, site |-> r.site, subject |-> r.subject,
     latest_visit |-> r.latest_visit,
     missing_visits |-> convert_int_for_db(IntCell(r.missing_visits)).value,
     missing_page |-> convert_int_for_db(IntCell(r.missing_page)).value,
     coded_terms |-> convert_int_for_db(IntCell(r.coded_terms)).value,
     uncoded_terms |-> convert_int_for_db(IntCell(r.uncoded_terms)).value,
     open_issues_in_lnr |-> convert_int_for_db(IntCell(r.open_issues_in_lnr)).value,
     open_issues_edrr |-> convert_int_for_db(IntCell(r.open_issues_edrr)).value,
     inactivated_forms_folders |->
         convert_int_for_db(IntCell(r.inactivated_forms_folders)).value,
     esae_dashboard_dm |-> convert_int_for_db(IntCell(r.esae_dashboard_dm)).value,
     esae_dashboard_safety |->
         convert_int_for_db(IntCell(r.esae_dashboard_safety)).value,
     pages_entered |-> convert_int_for_db(IntCell(r.pages_entered)).value,
     pages_non_conformant |->
         convert_int_for_db(IntCell(r.pages_non_conformant)).value,
     crfs_with_queries_nc |-> convert_int_for_db(IntCell(r.crfs_with_queries_nc)).value,
     crfs_without_queries_nc |->
         convert_int_for_db(IntCell(r.crfs_without_queries_nc)).value,
     percentage_clean_crf |->
         convert_float_for_db(FloatCell(r.percentage_clean_crf)).value,
     total_queries |-> convert_int_for_db(Cell("NoneType", 0, "")).value,
     crfs_require_verification |-> convert_int_for_db(Cell("NoneType", 0, "")).value,
     pds_proposed |-> convert_int_for_db(Cell("NoneType", 0, "")).value,
     crfs_overdue_within_45_days |-> convert_int_for_db(Cell("NoneType", 0, "")).value,
     crfs_overdue_45_to_90_days |-> convert_int_for_db(Cell("NoneType", 0, "")).value,
     crfs_overdue_beyond_90_days |-> convert_int_for_db(Cell("NoneType", 0, "")).value,
     broken_signatures |-> convert_int_for_db(Cell("NoneType", 0, "")).value,
     crfs_never_signed |-> convert_int_for_db(Cell("NoneType", 0, "")).value]

\* The 16 inserts of insert_all_data, in order.
InsertOrder ==
    <<"insert_subject_level_metrics", "insert_query_report",
      "insert_non_conformant", "insert_pi_signature_report", "insert_sdv",
      "insert_protocol_deviation", "insert_crf_freeze_unfreeze",
      "insert_crf_lock_unlock", "insert_completed_visits", "insert_edrr_issues",
      "insert_sae_issues", "insert_global_coding_report",
      "insert_inactivated_forms_folders", "insert_missing_lab_name_ranges",
      "insert_missing_pages", "insert_missing_visits">>

\* The tables of `database` (subject_level_metrics and
\* subject_dqi_clean_status are variables of their own).
EmptyTables ==
    [query_report |-> <<>>, non_conformant |-> <<>>, pi_signature_report |-> <<>>,
     sdv |-> <<>>, protocol_deviation |-> <<>>, crf_freeze_unfreeze |-> <<>>,
     crf_lock_unlock |-> <<>>, completed_visits |-> <<>>, edrr_issues |-> <<>>,
     sae_issues |-> <<>>, global_coding_report |-> <<>>,
     inactivated_forms_folders |-> <<>>, missing_lab_name_ranges |-> <<>>,
     missing_pages |-> <<>>, missing_visits |-> <<>>]

Stepped(db, raises) == [db |-> db, raises |-> raises]

\* executemany of a plain INSERT into a table whose site_id is NOT NULL when
\* site_required: the rows before the first one without a site are written,
\* then IntegrityError is raised.
InsertRows(db, table, rows, site_required) ==
    LET bad == {j \in 1..Len(rows) : site_required /\ rows[j].site = NONE}
        stop == IF bad = {} THEN Len(rows) + 1
                ELSE CHOOSE j \in bad : \A i \in bad : j <= i
    IN  Stepped([db EXCEPT !.tables[table] = @ \o SubSeq(rows, 1, stop - 1)],
                IF bad = {} THEN NONE ELSE "IntegrityError")

\* INSERT OR REPLACE INTO subject_level_metrics: UNIQUE(project_name, site_id,
\* subject_id), the last record of a key stays.
InsertSubjectLevelMetrics(db, filled) ==
    LET keys == {KeyOf(filled[j]) : j \in 1..Len(filled)}
        last(k) == CHOOSE j \in 1..Len(filled) :
                       /\ KeyOf(filled[j]) = k
                       /\ \A i \in 1..Len(filled) : KeyOf(filled[i]) = k => i <= j
    IN  Stepped([db EXCEPT !.subject_level_metrics =
                    [k \in DOMAIN db.subject_level_metrics \cup keys |->
                        IF k \in keys THEN PersistedRow(filled[last(k)])
                        ELSE db.subject_level_metrics[k]]],
                NONE)

RECURSIVE ReplaceEdrr(_, _)
\* INSERT OR REPLACE INTO edrr_issues: UNIQUE(project_name, subject_id).
ReplaceEdrr(table, rows) ==
    IF rows = <<>> THEN table
    ELSE LET r == [project |-> Head(rows).project, subject |-> Head(rows).subject,
                   total_open_issue_count |->
                       convert_int_for_db(IntCell(Head(rows).total_open_issue_count)).value]
         IN  ReplaceEdrr(
                 Append(SelectSeq(table, LAMBDA t : ~(t.project = r.project
                                                      /\ t.subject = r.subject)), r),
                 Tail(rows))

\* One insert function on the open transaction.  The sheets PI Signature
\* Report, SDV, Protocol Deviation and the four CRF freeze/lock sheets have no
\* rows in the model.
InsertStep(name, db, d, filled) ==
    CASE name = "insert_subject_level_metrics" -> InsertSubjectLevelMetrics(db, filled)
      [] name = "insert_query_report" ->
             InsertRows(db, "query_report", d.Query_Report, TRUE)
      [] name = "insert_non_conformant" ->
             InsertRows(db, "non_conformant", d.Non_conformant, TRUE)
      [] name = "insert_completed_visits" ->
             InsertRows(db, "completed_visits", d.SV, TRUE)
      [] name = "insert_edrr_issues" ->
             Stepped([db EXCEPT !.tables.edrr_issues = ReplaceEdrr(@, d.Compiled_EDRR)],
                     NONE)
      [] name = "insert_sae_issues" ->
             InsertRows(db, "sae_issues",
                        d.SAE_Dashboard_DM \o d.SAE_Dashboard_Safety, FALSE)
      [] name = "insert_global_coding_report" ->
             InsertRows(db, "global_coding_report",
                        d.GlobalCoding_MedDRA \o d.GlobalCoding_WHODD, FALSE)
      [] name = "insert_inactivated_forms_folders" ->
             InsertRows(db, "inactivated_forms_folders", d.Inactivated_Forms, TRUE)
      [] name = "insert_missing_lab_name_ranges" ->
             InsertRows(db, "missing_lab_name_ranges", d.Missing_Lab, TRUE)
      [] name = "insert_missing_pages" ->
             InsertRows(db, "missing_pages", d.All_Pages_Missing, TRUE)
      [] name = "insert_missing_visits" ->
             InsertRows(db, "missing_visits", d.Visit_Projection_Tracker, TRUE)
      [] OTHER -> Stepped(db, NONE)

RECURSIVE RunInserts(_, _, _, _, _)
\* The body of the try block from insert i on; `fault` is the insert at which
\* the database itself fails (sqlite3.OperationalError), 0 for none.
RunInserts(i, db, d, filled, fault) ==
    IF i > Len(InsertOrder) THEN [db |-> db, raises |-> NONE, at |-> NONE]
    ELSE IF fault = i
    THEN [db |-> db, raises |-> "OperationalError", at |-> InsertOrder[i]]
    ELSE LET step == InsertStep(InsertOrder[i], db, d, filled)
         IN  IF step.raises # NONE
             THEN [db |-> step.db, raises |-> step.raises, at |-> InsertOrder[i]]
             ELSE RunInserts(i + 1, step.db, d, filled, fault)

Rollback_KeepsWrittenRows(before, working) == working

\* conn.rollback()
Rollback(before, working) == before

\* The database a run may find: empty after create_database, or holding the
\* rows of an earlier run.
EmptyDb == [subject_level_metrics |-> EmptyTable, tables |-> EmptyTables]
EarlierDb ==
    [subject_level_metrics |->
        [k \in {<<Project, "S1", "A">>} |-> PersistedRow(StagingRow("S1", "A", Stale))],
     tables |-> [EmptyTables EXCEPT !.sae_issues = <<Key("S1", "A")>>,
                                    !.edrr_issues = <<Edrr("A", 7)>>]]

\* At most MaxInsertRows event rows in the study a run inserts, out of the
\* rows of the site-less sources and the first row of every other table.
MaxInsertRows == 1

RunKinds ==
    {k \in 1..Len(EventRowKinds) :
        \/ EventRowKinds[k][1] \in {"Missing_Lab", "Inactivated_Forms",
                                     "SAE_Dashboard_DM", "SAE_Dashboard_Safety"}
        \/ \A i \in 1..(k - 1) : EventRowKinds[i][1] # EventRowKinds[k][1]}

InitRun ==
    /\ pc = "populate_site_id_in_dataframes"
    /\ args = <<>>
    /\ result = NONE
    /\ config = Shipped
    /\ \E earlier \in {EmptyDb, EarlierDb} :
           /\ subject_level_metrics = earlier.subject_level_metrics
           /\ database = earlier.tables
    /\ subject_dqi_clean_status = EmptyTable
    /\ \E staging \in StagingTables,
          events \in ChoicesOf(RunKinds, MaxInsertRows) :
           dataframes = Extracted(staging, events)
    /\ filled_subject_metrics = <<>>
    /\ history = <<>>

\* insert_all_data: BEGIN TRANSACTION, the 16 inserts, COMMIT; on any
\* exception rollback and re-raise.  In process_single_study the exception
\* ends the run before calculate_all_dqi_and_clean_status.
insert_all_data ==
    /\ pc = "filled"
    /\ \E fault \in 0..Len(InsertOrder) :
           LET before == [subject_level_metrics |-> subject_level_metrics,
                          tables |-> database]
               run == RunInserts(1, before, dataframes, filled_subject_metrics, fault)
               after == IF run.raises = NONE THEN run.db
                        ELSE Rollback(before, run.db)
           IN  /\ subject_level_metrics' = after.subject_level_metrics
               /\ database' = after.tables
               /\ result' = [raises |-> run.raises, at |-> run.at]
               /\ pc' = IF run.raises = NONE THEN "calculate_dqi" ELSE "failed"
    /\ history' = Append(history, "insert_all_data")
    /\ UNCHANGED <<args, config, subject_dqi_clean_status, dataframes,
                   filled_subject_metrics>>

(***************************************************************************)
(* main.main: every study is processed, then every processed study is      *)
(* inserted, then the scores are calculated                                *)
(***************************************************************************)

\* At most MaxStudies study folders.
MaxStudies == 2

\* The tables of a study folder under its own project name.
Renamed(d, name) ==
    [t \in DOMAIN d |-> [j \in 1..Len(d[t]) |-> [d[t][j] EXCEPT !.project = name]]]

\* A study folder: unreadable (extract_all_data raises), or one of a few
\* readable ones: no event row, an eSAE row without a site, a lab row whose
\* subject is not in the subject list.
StudyFolders ==
    {[readable |-> FALSE, dataframes |-> <<>>]}
    \cup {[readable |-> TRUE,
           dataframes |-> Extracted(<<StagingRow("S1", "A", Stale),
                                      StagingRow("S2", "B", Untouched)>>, events)] :
             events \in {<<>>, << <<"SAE_Dashboard_DM", Key(NONE, "A")>> >>,
                         << <<"Missing_Lab", Key(NONE, "C")>> >>}}

StudyLists ==
    UNION {[1..n -> StudyFolders] : n \in 0..MaxStudies}

InitMain ==
    /\ pc = "main"
    /\ \E studies \in StudyLists :
           args = [studies |-> [i \in 1..Len(studies) |->
                                   [studies[i] EXCEPT !.dataframes =
                                       IF studies[i].readable
                                       THEN Renamed(@, "Study " \o ToString(i))
                                       ELSE @]],
                   i |-> 1, all_study_data |-> <<>>, j |-> 1, total_inserted |-> 0]
    /\ result = NONE
    /\ config = Shipped
    /\ \E earlier \in {EmptyDb, EarlierDb} :
           /\ subject_level_metrics = earlier.subject_level_metrics
           /\ database = earlier.tables
    /\ subject_dqi_clean_status = EmptyTable
    /\ dataframes = <<>>
    /\ filled_subject_metrics = <<>>
    /\ history = <<>>

\* main up to the first loop: without study folders it returns at once.
main ==
    /\ pc = "main"
    /\ pc' = IF args.studies = <<>> THEN "returned" ELSE "main_process"
    /\ history' = Append(history, "main")
    /\ UNCHANGED <<args, result, config, subject_level_metrics,
                   subject_dqi_clean_status, dataframes, filled_subject_metrics,
                   database>>

\* extract_all_data (with populate_site_id_in_dataframes) and
\* populate_site_id_in_esae of main.process_single_study.
BackfilledSites(d) ==
    LET d1 == [d EXCEPT !.Inactivated_Forms = PopulateTable(d.Subject_Level_Metrics, @),
                        !.Missing_Lab = PopulateTable(d.Subject_Level_Metrics, @)]
    IN  [d1 EXCEPT !.SAE_Dashboard_DM = PopulateEsae(d.Subject_Level_Metrics, @),
                   !.SAE_Dashboard_Safety = PopulateEsae(d.Subject_Level_Metrics, @)]

\* Where main goes after the i-th of n studies has been processed
\* (`processed` studies are in all_study_data), and after the j-th of n
\* processed studies has been inserted.
NextAfterProcess(i, n, processed) ==
    IF i < n THEN "main_process"
    ELSE IF processed > 0 THEN "main_insert" ELSE "calculate_dqi"

NextAfterInsert_ScoringAfterFirstStudy(j, n) == "calculate_dqi"

NextAfterInsert(j, n) == IF j < n THEN "main_insert" ELSE "calculate_dqi"

\* One turn of the first loop: main.process_single_study on the next study;
\* an exception skips the study.
main_process_single_study ==
    /\ pc = "main_process"
    /\ LET study == args.studies[args.i]
       IN  IF ~study.readable
           THEN /\ args' = [args EXCEPT !.i = @ + 1]
                /\ history' = history \o <<"extract_all_data raised">>
                /\ pc' = NextAfterProcess(args.i, Len(args.studies),
                                          Len(args.all_study_data))
           ELSE LET d == BackfilledSites(study.dataframes)
                IN  \E sv_latest \in SvLatestChoices(d.Subject_Level_Metrics, d.SV) :
                        /\ args' = [args EXCEPT
                               !.i = @ + 1,
                               !.all_study_data = Append(@,
                                   [dataframes |-> d,
                                    filled_subject_metrics |-> FillAll(d, sv_latest)])]
                        /\ history' = history
                               \o <<"populate_site_id_in_dataframes">>
                               \o StillMissingNotices(study.dataframes, d)
                               \o <<"populate_site_id_in_esae", "fill_all_missing_data">>
                        /\ pc' = NextAfterProcess(args.i, Len(args.studies),
                                                  Len(args.all_study_data) + 1)
    /\ UNCHANGED <<result, config, subject_level_metrics,
                   subject_dqi_clean_status, dataframes, filled_subject_metrics,
                   database>>

\* One turn of the second loop: insert_all_data on the next processed study;
\* an exception (after the rollback) skips the study.
main_insert_all_data ==
    /\ pc = "main_insert"
    /\ \E fault \in 0..Len(InsertOrder) :
           LET study == args.all_study_data[args.j]
               before == [subject_level_metrics |-> subject_level_metrics,
                          tables |-> database]
               run == RunInserts(1, before, study.dataframes,
                                 study.filled_subject_metrics, fault)
               after == IF run.raises = NONE THEN run.db
                        ELSE Rollback(before, run.db)
           IN  /\ subject_level_metrics' = after.subject_level_metrics
               /\ database' = after.tables
               /\ result' = [raises |-> run.raises, at |-> run.at]
               /\ args' = [args EXCEPT
                      !.j = @ + 1,
                      !.total_inserted = IF run.raises = NONE THEN @ + 1 ELSE @]
    /\ pc' = NextAfterInsert(args.j, Len(args.all_study_data))
    /\ history' = Append(history, "insert_all_data")
    /\ UNCHANGED <<config, subject_dqi_clean_status, dataframes,
                   filled_subject_metrics>>

NextRun ==
    \/ populate_site_id_in_dataframes
    \/ populate_site_id_in_esae
    \/ fill_all_missing_data
    \/ insert_all_data
    \/ main
    \/ main_process_single_study
    \/ main_insert_all_data
    \/ calculate_dqi_for_all_subjects
    \/ calculate_clean_status_for_all_subjects

\* A run of process_single_study.py on one study, or of main.py on the study
\* folders.
SpecRun == (InitRun \/ InitMain) /\ [][NextRun]_vars

\* A second call of insert_all_data with the dataframes and the records of
\* the first, successful one; `result` keeps the tables the first call left.
insert_all_data_again ==
    /\ pc = "calculate_dqi"
    /\ \E fault \in 0..Len(InsertOrder) :
           LET before == [subject_level_metrics |-> subject_level_metrics,
                          tables |-> database]
               run == RunInserts(1, before, dataframes, filled_subject_metrics, fault)
               after == IF run.raises = NONE THEN run.db
                        ELSE Rollback(before, run.db)
           IN  /\ subject_level_metrics' = after.subject_level_metrics
               /\ database' = after.tables
               /\ result' = [raises |-> run.raises, at |-> run.at, once |-> before]
               /\ pc' = IF run.raises = NONE THEN "reinserted" ELSE "failed"
    /\ history' = Append(history, "insert_all_data")
    /\ UNCHANGED <<args, config, subject_dqi_clean_status, dataframes,
                   filled_subject_metrics>>

NextRerun ==
    \/ populate_site_id_in_dataframes
    \/ populate_site_id_in_esae
    \/ fill_all_missing_data
    \/ insert_all_data
    \/ insert_all_data_again

\* A study that is persisted twice.
SpecRerun == InitRun /\ [][NextRerun]_vars

(***************************************************************************)
(* Properties of the reconciliation engine                                 *)
(***************************************************************************)

\* The number of rows of `table` with the (project, site, subject) of `row`.
RowsOfSiteKey(table, row) ==
    Cardinality({j \in 1..Len(table) :
        /\ table[j].project = row.project
        /\ table[j].site = row.site
        /\ table[j].subject = row.subject})

\* The indices, in order, of the rows of `table` with the (project, subject)
\* of `row` that satisfy Test.
RowsOfSubject(table, row, Test(_)) ==
    SelectSeq([j \in 1..Len(table) |-> j],
              LAMBDA j : /\ table[j].project = row.project
                         /\ table[j].subject = row.subject
                         /\ Test(table[j]))

\* The staging record a reconciled record comes from.
StagingOf(row) ==
    CHOOSE s \in {dataframes.Subject_Level_Metrics[j] :
                     j \in 1..Len(dataframes.Subject_Level_Metrics)} :
        s.project = row.project /\ s.site = row.site /\ s.subject = row.subject

\* C8: for each site-scoped count dimension (missing visits, missing pages,
\* open lab issues, inactivated forms/folders, eSAE-DM and eSAE-Safety
\* reviews) the reconciled value of every subject is the number of rows of
\* the dimension's event table (as the site-ID backfill left it) with the
\* subject's (project, site, subject), whatever the staging value was, and so
\* 0 when no row matches.
C8_SiteScopedCountsReplaceStaging ==
    pc = "filled" =>
        \A i \in 1..Len(filled_subject_metrics) :
            LET r == filled_subject_metrics[i]
            IN  /\ r.missing_visits = RowsOfSiteKey(dataframes.Visit_Projection_Tracker, r)
                /\ r.missing_page = RowsOfSiteKey(dataframes.All_Pages_Missing, r)
                /\ r.open_issues_in_lnr = RowsOfSiteKey(dataframes.Missing_Lab, r)
                /\ r.inactivated_forms_folders =
                       RowsOfSiteKey(dataframes.Inactivated_Forms, r)
                /\ r.esae_dashboard_dm = RowsOfSiteKey(dataframes.SAE_Dashboard_DM, r)
                /\ r.esae_dashboard_safety =
                       RowsOfSiteKey(dataframes.SAE_Dashboard_Safety, r)

\* A stale staging count of 7 is replaced by 1 although a second row names
\* the subject at another site, and by 0 where no row matches.
C8_Witness ==
    /\ pc = "filled"
    /\ \E i \in 1..Len(filled_subject_metrics) :
           LET r == filled_subject_metrics[i]
           IN  /\ StagingOf(r).missing_visits = 7
               /\ StagingOf(r).missing_page = 7
               /\ Len(dataframes.Visit_Projection_Tracker) = 2
               /\ r.missing_visits = 1
               /\ r.missing_page = 0

\* C9 as claimed: the reconciled open-EDRR-issues value of every subject is
\* the number of rows of the EDRR table with the subject's (project,
\* subject), 0 when none match.
C9_EdrrIsRowCount ==
    pc = "filled" =>
        \A i \in 1..Len(filled_subject_metrics) :
            LET r == filled_subject_metrics[i]
            IN  r.open_issues_edrr =
                    Len(RowsOfSubject(dataframes.Compiled_EDRR, r, LAMBDA e : TRUE))

\* The open-EDRR values of the reconciled records of one staging record, in
\* order.
EdrrValuesOf(s) ==
    LET mine == SelectSeq(filled_subject_metrics,
                    LAMBDA r : r.project = s.project /\ r.site = s.site
                               /\ r.subject = s.subject)
    IN  [m \in 1..Len(mine) |-> mine[m].open_issues_edrr]

\* C9 as amended: the reconciled open-EDRR-issues value replaces the staging
\* value by the 'Total Open Issue Count' field (null as 0) of the EDRR row
\* with the subject's (project, subject), not by a row count; it is 0 when no
\* row matches, and a subject with several EDRR rows comes out once per row,
\* each record with that row's count.
C9_EdrrIsReportedCount ==
    pc = "filled" =>
        \A i \in 1..Len(dataframes.Subject_Level_Metrics) :
            LET s == dataframes.Subject_Level_Metrics[i]
                rows == RowsOfSubject(dataframes.Compiled_EDRR, s, LAMBDA e : TRUE)
            IN  EdrrValuesOf(s) =
                    IF rows = <<>> THEN <<0>>
                    ELSE [m \in 1..Len(rows) |->
                             IF dataframes.Compiled_EDRR[rows[m]].total_open_issue_count = NULL
                             THEN 0
                             ELSE dataframes.Compiled_EDRR[rows[m]].total_open_issue_count]

\* One EDRR row reporting 2 open issues: the subject's value is 2, not 1 and
\* not the staging 7.
C9_Witness ==
    /\ pc = "filled"
    /\ Len(dataframes.Compiled_EDRR) = 1
    /\ dataframes.Compiled_EDRR[1].total_open_issue_count = 2
    /\ \E i \in 1..Len(filled_subject_metrics) :
           LET r == filled_subject_metrics[i]
           IN  /\ r.subject = dataframes.Compiled_EDRR[1].subject
               /\ StagingOf(r).open_issues_edrr = 7
               /\ r.open_issues_edrr = 2

IsYes(v) == v \in {"yes", "Yes", "YES"}

\* C10: over the union of the two coding sources, by (project, subject):
\* coded_terms counts the records with a non-null coding status;
\* uncoded_terms counts the records whose require-coding flag is 'yes' in any
\* case or whose coding status is null; a record with a coding status and
\* require-coding 'yes' counts in both.
C10_CodedUncoded ==
    pc = "filled" =>
        \A i \in 1..Len(filled_subject_metrics) :
            LET r == filled_subject_metrics[i]
                Coded(e) == e.coding_status # NONE
                Uncoded(e) == IsYes(e.require_coding) \/ e.coding_status = NONE
            IN  /\ r.coded_terms =
                       Len(RowsOfSubject(dataframes.GlobalCoding_MedDRA, r, Coded))
                       + Len(RowsOfSubject(dataframes.GlobalCoding_WHODD, r, Coded))
                /\ r.uncoded_terms =
                       Len(RowsOfSubject(dataframes.GlobalCoding_MedDRA, r, Uncoded))
                       + Len(RowsOfSubject(dataframes.GlobalCoding_WHODD, r, Uncoded))

\* The only coding record of a subject has a coding status and require-coding
\* 'Yes': it is counted as coded and as uncoded.
C10_Witness ==
    /\ pc = "filled"
    /\ Len(dataframes.GlobalCoding_MedDRA) = 1
    /\ Len(dataframes.GlobalCoding_WHODD) = 0
    /\ dataframes.GlobalCoding_MedDRA[1].coding_status # NONE
    /\ dataframes.GlobalCoding_MedDRA[1].require_coding = "Yes"
    /\ \E i \in 1..Len(filled_subject_metrics) :
           LET r == filled_subject_metrics[i]
           IN  /\ r.subject = dataframes.GlobalCoding_MedDRA[1].subject
               /\ r.coded_terms = 1
               /\ r.uncoded_terms = 1

\* The distinct form names of the rows of `table` with the (project, site,
\* subject) of `row`; empty when no row matches.
FormsOf(table, row) ==
    {table[j].form_name : j \in {j \in 1..Len(table) :
        /\ table[j].project = row.project
        /\ table[j].site = row.site
        /\ table[j].subject = row.subject
        /\ table[j].form_name # NONE}}

\* C11: for every subject key, with NC the distinct form names of the
\* non-conformant report and Q those of the query report (an absent set taken
\* as empty), crfs_with_queries_nc = |NC \cap Q| and
\* crfs_without_queries_nc = |NC \ Q|.
C11_FormSetCounts ==
    pc = "filled" =>
        \A i \in 1..Len(filled_subject_metrics) :
            LET r == filled_subject_metrics[i]
                NC == FormsOf(dataframes.Non_conformant, r)
                Q == FormsOf(dataframes.Query_Report, r)
            IN  /\ r.crfs_with_queries_nc = Cardinality(NC \cap Q)
                /\ r.crfs_without_queries_nc = Cardinality(NC \ Q)

\* Non-conformant forms {Vitals, Labs} and query forms {Vitals, Dosing} of
\* one subject give 1 and 1, while a subject with non-conformant forms and no
\* query row at all gets |NC|.
C11_Witness ==
    /\ pc = "filled"
    /\ \E i \in 1..Len(filled_subject_metrics) :
           LET r == filled_subject_metrics[i]
           IN  /\ FormsOf(dataframes.Non_conformant, r) = {"Vitals", "Labs"}
               /\ FormsOf(dataframes.Query_Report, r) = {"Vitals", "Dosing"}
               /\ r.crfs_with_queries_nc = 1
               /\ r.crfs_without_queries_nc = 1

Abs(x) == IF x < 0 THEN 0 - x ELSE x

\* C12: percentage_clean_crf (in hundredths of a percent) is
\* (pages_entered - pages_non_conformant) * 100 / pages_entered rounded to 2
\* decimals, i.e. within half a hundredth of the quotient, when pages_entered
\* > 0, and 0 when pages_entered is 0 or null; the staging percentage never
\* survives.
C12_PercentageClean ==
    pc = "filled" =>
        \A i \in 1..Len(filled_subject_metrics) :
            LET r == filled_subject_metrics[i]
                entered == StagingOf(r).pages_entered
                nc == StagingOf(r).pages_non_conformant
                clean == entered - (IF nc = NULL THEN 0 ELSE nc)
            IN  IF entered # NULL /\ entered > 0
                THEN 2 * Abs(r.percentage_clean_crf * entered - clean * 100 * 100)
                         <= entered
                ELSE r.percentage_clean_crf = 0

\* 100 pages entered, 25 non-conformant, stale 100.00: the result is 75.00;
\* and a subject without pages gets 0.
C12_Witness ==
    /\ pc = "filled"
    /\ \E i, j \in 1..Len(filled_subject_metrics) :
           LET r == filled_subject_metrics[i]
               z == filled_subject_metrics[j]
           IN  /\ r.pages_entered = 100
               /\ r.pages_non_conformant = 25
               /\ StagingOf(r).percentage_clean_crf = 100 * 100
               /\ r.percentage_clean_crf = 75 * 100
               /\ z.pages_entered = 0
               /\ z.percentage_clean_crf = 0

\* The completed-visits rows with the (project, site, subject) of `row`.
VisitsOf(row) ==
    {j \in 1..Len(dataframes.SV) :
        /\ dataframes.SV[j].project = row.project
        /\ dataframes.SV[j].site = row.site
        /\ dataframes.SV[j].subject = row.subject}

\* C13: fill_latest_visit_and_status changes the latest-visit field only of
\* the records whose staging value is blank (null or ''): it becomes the visit
\* name of a completed-visits row of the same (project, site, subject) with
\* the greatest visit date, or null when there is no such row; a non-blank
\* staging value is kept.
C13_LatestVisit ==
    pc = "filled" =>
        \A i \in 1..Len(filled_subject_metrics) :
            LET r == filled_subject_metrics[i]
                staged == StagingOf(r).latest_visit
            IN  IF staged # NONE /\ staged # ""
                THEN r.latest_visit = staged
                ELSE IF VisitsOf(r) = {}
                     THEN r.latest_visit = NONE
                     ELSE \E j \in VisitsOf(r) :
                              /\ \A k \in VisitsOf(r) :
                                     dataframes.SV[k].visit_date
                                         <= dataframes.SV[j].visit_date
                              /\ r.latest_visit = dataframes.SV[j].visit_name

KeysOf(table) ==
    {[project |-> table[j].project, site |-> table[j].site,
      subject |-> table[j].subject] : j \in 1..Len(table)}

\* C14: fill_all_missing_data returns exactly one record per staging subject
\* record: with unique staging keys the output has as many records as the
\* staging table and the same set of keys, whatever the event tables hold.
C14_OneRecordPerSubject ==
    pc = "filled" =>
        /\ Len(filled_subject_metrics) = Len(dataframes.Subject_Level_Metrics)
        /\ KeysOf(filled_subject_metrics) = KeysOf(dataframes.Subject_Level_Metrics)

\* C15: reconciliation is deterministic and idempotent: a second run of
\* populate_site_id_in_esae and fill_all_missing_data on the dataframes the
\* first run has been through returns the records of the first run.
C15_SecondRunIsIdentical ==
    pc = "refilled" => result = filled_subject_metrics

\* Two eSAE rows without a site were resolved and counted by the first run,
\* and the second run has returned.
C15_Witness ==
    /\ pc = "refilled"
    /\ Len(dataframes.SAE_Dashboard_DM) = 2
    /\ \A j \in 1..2 : dataframes.SAE_Dashboard_DM[j].site = "S1"
    /\ \E i \in 1..Len(result) : result[i].esae_dashboard_dm = 2

(***************************************************************************)
(* Properties of the coercions before persistence                          *)
(***************************************************************************)

\* A value that cannot be converted to a number: a string that is no numeric
\* literal of the target type, or a value of a non-numeric type.
FailsConversion(fn, x) ==
    \/ x.type = "Timestamp"
    \/ /\ x.type = "str"
       /\ x.text \notin (IF fn = "convert_int_for_db" THEN DOMAIN IntLiterals
                         ELSE DOMAIN FloatLiterals)

\* C18: convert_int_for_db and convert_float_for_db map a null value to 0 and
\* a value that fails conversion to 0 with a warning; neither raises.
C18_CoercionNeverRaises ==
    (pc = "return" /\ args.fn \in {"convert_int_for_db", "convert_float_for_db"}) =>
        /\ result.raises = NONE
        /\ IsNa(args.value) => result.value = 0
        /\ FailsConversion(args.fn, args.value) =>
               result.value = 0 /\ result.warning

(***************************************************************************)
(* Properties of persistence and of the order of a run                     *)
(***************************************************************************)

Committed == pc \in {"calculate_dqi", "calculate_clean_status", "done"}

\* C16: every reconciled record that was persisted has non-negative counts
\* and a percentage_clean_crf in [0,100] (here in hundredths), provided the
\* staging pages_entered and pages_non_conformant are non-negative.
C16_PersistedRanges ==
    Committed =>
        \A i \in 1..Len(filled_subject_metrics) :
            LET staged == StagingOf(filled_subject_metrics[i])
                row == subject_level_metrics[KeyOf(filled_subject_metrics[i])]
            IN  (staged.pages_entered >= 0 /\ staged.pages_non_conformant >= 0) =>
                    /\ \A c \in {"missing_visits", "missing_page", "coded_terms",
                                 "uncoded_terms", "open_issues_in_lnr",
                                 "open_issues_edrr", "inactivated_forms_folders",
                                 "esae_dashboard_dm", "esae_dashboard_safety",
                                 "pages_entered", "pages_non_conformant",
                                 "crfs_with_queries_nc", "crfs_without_queries_nc"} :
                           row[c] >= 0
                    /\ row.percentage_clean_crf >= 0
                    /\ row.percentage_clean_crf <= 100 * 100

Count(seq, x) == Cardinality({p \in 1..Len(seq) : seq[p] = x})

IsMainRun == history # <<>> /\ history[1] = "main"

\* The site-less sources and the tables their rows are inserted into.
SitelessSources ==
    [SAE_Dashboard_DM |-> "sae_issues", SAE_Dashboard_Safety |-> "sae_issues",
     Inactivated_Forms |-> "inactivated_forms_folders",
     Missing_Lab |-> "missing_lab_name_ranges"]

\* The rows of source `name` whose (project, subject) is not in the subject
\* list and that have no site.
Unresolved(name) ==
    {j \in 1..Len(dataframes[name]) :
        /\ dataframes[name][j].site \in {NONE, "-"}
        /\ ~\E k \in 1..Len(dataframes.Subject_Level_Metrics) :
               /\ dataframes.Subject_Level_Metrics[k].project = dataframes[name][j].project
               /\ dataframes.Subject_Level_Metrics[k].subject = dataframes[name][j].subject}

\* C17: once a study went through the backfill and insert_all_data (the
\* database itself not failing), every unresolved row of a site-less source
\* was reported by a diagnostic, did not make the batch fail, and is in its
\* table.
C17_UnresolvedSiteIsRetained ==
    (pc \in {"failed", "calculate_dqi"} /\ ~IsMainRun
     /\ result.raises # "OperationalError") =>
        \A name \in DOMAIN SitelessSources :
            Unresolved(name) # {} =>
                /\ \E h \in 1..Len(history) :
                       history[h] = "Site IDs still missing in " \o name
                /\ result.raises = NONE
                /\ \A j \in Unresolved(name) :
                       \E k \in 1..Len(database[SitelessSources[name]]) :
                           database[SitelessSources[name]][k] = dataframes[name][j]

ReconciliationAndInsertion ==
    {"populate_site_id_in_dataframes", "populate_site_id_in_esae",
     "fill_all_missing_data", "insert_all_data"}

\* C19: when calculate_all_dqi_and_clean_status starts, every study of the
\* run has ended its reconciliation (or failed to be read), every reconciled
\* study has ended its insert, and no reconciliation or insert step follows;
\* and every fill_all_missing_data comes after the two site-ID backfills of
\* its study.
C19_ScoringAfterReconciliation ==
    /\ \A q \in 1..Len(history) :
           history[q] = "calculate_dqi_for_all_subjects" =>
               LET before == SubSeq(history, 1, q - 1)
               IN  /\ Count(before, "fill_all_missing_data")
                          + Count(before, "extract_all_data raised")
                      = IF IsMainRun THEN Len(args.studies) ELSE 1
                   /\ Count(before, "insert_all_data")
                      = Count(before, "fill_all_missing_data")
                   /\ \A p \in (q + 1)..Len(history) :
                          history[p] \notin ReconciliationAndInsertion
    /\ \A q \in 1..Len(history) :
           history[q] = "fill_all_missing_data" =>
               \E a, b \in 1..(q - 1) :
                   /\ a < b
                   /\ history[a] = "populate_site_id_in_dataframes"
                   /\ history[b] = "populate_site_id_in_esae"
                   /\ \A p \in a..(q - 1) : history[p] # "fill_all_missing_data"

\* main.py has reconciled and inserted two studies and calculated the scores.
C19_Witness ==
    /\ pc = "done"
    /\ IsMainRun
    /\ args.total_inserted = 2
    /\ Count(history, "calculate_dqi_for_all_subjects") = 1

\* The study insert_all_data is called with.
InsertedStudy ==
    IF pc = "filled"
    THEN [dataframes |-> dataframes, filled_subject_metrics |-> filled_subject_metrics]
    ELSE args.all_study_data[args.j]

\* C20: insert_all_data is all-or-nothing.  If an insert raises, no table
\* differs from its state before the call and the exception reaches the
\* caller (process_single_study ends without scoring); if none raises, the
\* records of every table of the study are in the database.
C20_InsertAllOrNothing ==
    [][(pc \in {"filled", "main_insert"}
        /\ history' = Append(history, "insert_all_data")) =>
          IF result'.raises # NONE
          THEN /\ subject_level_metrics' = subject_level_metrics
               /\ database' = database
               /\ pc = "filled" => pc' = "failed"
          ELSE LET d == InsertedStudy.dataframes
                   Grown(table, rows) ==
                       Len(database'[table]) = Len(database[table]) + Len(rows)
               IN  /\ \A i \in 1..Len(InsertedStudy.filled_subject_metrics) :
                          KeyOf(InsertedStudy.filled_subject_metrics[i])
                              \in DOMAIN subject_level_metrics'
                   /\ Grown("query_report", d.Query_Report)
                   /\ Grown("non_conformant", d.Non_conformant)
                   /\ Grown("completed_visits", d.SV)
                   /\ Grown("sae_issues", d.SAE_Dashboard_DM \o d.SAE_Dashboard_Safety)
                   /\ Grown("global_coding_report",
                            d.GlobalCoding_MedDRA \o d.GlobalCoding_WHODD)
                   /\ Grown("inactivated_forms_folders", d.Inactivated_Forms)
                   /\ Grown("missing_lab_name_ranges", d.Missing_Lab)
                   /\ Grown("missing_pages", d.All_Pages_Missing)
                   /\ Grown("missing_visits", d.Visit_Projection_Tracker)
                   /\ \A j \in 1..Len(d.Compiled_EDRR) :
                          \E k \in 1..Len(database'.edrr_issues) :
                              database'.edrr_issues[k].subject = d.Compiled_EDRR[j].subject
      ]_vars

\* The 14th insert raised on a row without a site after the subject records
\* and an earlier table had been written: the database is as it was.
C20_Witness ==
    /\ pc = "failed"
    /\ result.raises = "IntegrityError"
    /\ result.at = "insert_missing_lab_name_ranges"
    /\ filled_subject_metrics # <<>>
    /\ subject_level_metrics = EmptyTable
    /\ database = EmptyTables

(***************************************************************************)
(* Properties of the persistence of the results                            *)
(***************************************************************************)

\* The DQI columns and the clean-status columns of a result row.
DqiFields(r) == [dqi_score |-> r.dqi_score, dqi_category |-> r.dqi_category,
                 norm |-> r.norm]
CleanFields(r) == [clean_status |-> r.clean_status, criteria_met |-> r.criteria_met,
                   criteria_total |-> r.criteria_total,
                   failing_criteria |-> r.failing_criteria]

\* C21: a run that fails at any point of calculate_all_dqi_and_clean_status
\* leaves no subject's result row partially updated: after the failure no
\* row of subject_dqi_clean_status holds the DQI fields of this run together
\* with clean-status fields that are not those of this run.
C21_NoPartialResultRow ==
    pc = "raised" =>
        \A k \in DOMAIN subject_dqi_clean_status \cap DOMAIN subject_level_metrics :
            DqiFields(subject_dqi_clean_status[k])
                    = DqiFields(DqiRow(subject_level_metrics[k], config))
                => CleanFields(subject_dqi_clean_status[k])
                       = CleanRow(subject_level_metrics[k])

C24_EmptyCellIsBackfilled ==
    pc = "filled" =>
        \A i \in 1..Len(dataframes.CPID_EDC_Metrics_xlsx),
           q \in 1..Len(filled_subject_metrics) :
            LET cell == dataframes.CPID_EDC_Metrics_xlsx[i]
                r == filled_subject_metrics[q]
            IN  (/\ KeyOf(cell) = KeyOf(r)
                 /\ cell.latest_visit = NONE
                 /\ VisitsOf(r) # {}) =>
                    \E j \in VisitsOf(r) :
                        /\ \A k \in VisitsOf(r) :
                               dataframes.SV[k].visit_date <= dataframes.SV[j].visit_date
                        /\ r.latest_visit = dataframes.SV[j].visit_name

\* The mapping extract_all_data_parallel is to return: the table of every
\* source that can be read, under its own name.
ExpectedTables ==
    LET names == {extraction_tasks[i] : i \in 1..Len(extraction_tasks)}
                 \cup {sheet_configs[i] : i \in 1..Len(sheet_configs)}
        read == (names \ args.fails)
                \cup (IF "eSAE_Dashboard_Standard_DM_Safety_Report.xlsx" \in args.fails
                      THEN {} ELSE esae_sheets)
                \cup (IF "Missing_Pages_Report.xlsx" \in args.fails
                      THEN {} ELSE missing_pages_sheets)
    IN  [n \in read |-> TableRead(n)]

\* The tables of the futures the as_completed loop has been through.
YieldedTables(names) ==
    [n \in {names[i] : i \in {i \in 1..Len(names) : args.futures[i] = "yielded"}}
           \ args.fails |-> TableRead(n)]

\* C25: for every completion order of the tasks extract_all_data_parallel
\* returns the same mapping, the table of every readable source under its
\* name; while the loops run the mapping holds exactly the tables of the
\* futures gone through, so a failing task leaves out its own table only.
C25_SameMappingForEveryOrder ==
    /\ pc = "as_completed" => dataframes = YieldedTables(extraction_tasks)
    /\ pc = "sheets_as_completed" => args.sheets = YieldedTables(sheet_configs)
    /\ pc = "returned" => result = ExpectedTables

\* A task ended before one submitted earlier, the Missing_Lab task raised,
\* and the 19 other tables were returned.
C25_Witness ==
    /\ pc = "returned"
    /\ args.overtaken
    /\ args.fails = {"Missing_Lab"}
    /\ "Missing_Lab" \notin DOMAIN result
    /\ Cardinality(DOMAIN result) = 19

\* C26: under the shipped weights and thresholds every subject the evaluator
\* classifies as Clean has the composite score 100 and the category
\* Excellent.
C26_CleanImpliesExcellent ==
    (pc = "done" /\ config = Shipped) =>
        \A k \in DOMAIN subject_dqi_clean_status :
            subject_dqi_clean_status[k].clean_status = "Clean" =>
                /\ subject_dqi_clean_status[k].dqi_score = 100 * 100
                /\ subject_dqi_clean_status[k].dqi_category = "Excellent"

\* A Clean subject with 13 CRFs overdue for signature: the unsigned-CRFs
\* sub-score is 0 and the composite score is still 100.
C26_Witness ==
    /\ pc = "done"
    /\ config = Shipped
    /\ \E k \in DOMAIN subject_dqi_clean_status :
           /\ subject_dqi_clean_status[k].clean_status = "Clean"
           /\ subject_level_metrics[k].crfs_overdue_beyond_90_days = 13
           /\ subject_dqi_clean_status[k].norm.unsigned_crfs = 0
           /\ UncappedScore(k) = 100 * ScoreUnit
           /\ subject_dqi_clean_status[k].dqi_score = 100 * 100

\* The five categories, best first.
Tiers == <<"Excellent", "Good", "Acceptable", "Needs Attention", "Critical">>

\* Subject records with non-negative raw dimensions: every count that feeds
\* the nine dimensions is 0, 1 or 13 (13 is above every shipped threshold),
\* 13 pages are entered.
TierRows ==
    {[c \in MetricColumns |->
         CASE c = "total_queries" -> v[1]
           [] c = "esae_dashboard_dm" -> v[2]
           [] c = "crfs_never_signed" -> v[3]
           [] c = "crfs_require_verification" -> v[4]
           [] c \in {"missing_visits", "missing_page", "pages_non_conformant",
                     "uncoded_terms", "pds_proposed"} -> v[5]
           [] c = "pages_entered" -> 13
           [] OTHER -> 0] :
        v \in [1..5 -> {0, 1, 13}]}

\* C27: under the shipped weights and thresholds each of the five categories
\* is the category of some subject record with non-negative raw dimensions,
\* Critical included.
C27_EveryTierReachable ==
    config = Shipped =>
        \A t \in 1..Len(Tiers) :
            \E row \in TierRows : DqiRow(row, config).dqi_category = Tiers[t]

\* C28: in every persisted DQI row the stored category is the category of
\* the stored score, i.e. of the composite score rounded to two decimals
\* (stored in hundredths): Excellent from 90.00, Good from 75.00, Acceptable
\* from 60.00, Needs Attention from 40.00, Critical below.
C28_CategoryMatchesStoredScore ==
    \A k \in DOMAIN subject_dqi_clean_status :
        LET r == subject_dqi_clean_status[k]
        IN  r.dqi_category =
                IF r.dqi_score >= 90 * 100 THEN "Excellent"
                ELSE IF r.dqi_score >= 75 * 100 THEN "Good"
                ELSE IF r.dqi_score >= 60 * 100 THEN "Acceptable"
                ELSE IF r.dqi_score >= 40 * 100 THEN "Needs Attention"
                ELSE "Critical"

\* Under the shipped configuration a subject with 13 CRFs never signed and
\* 13 forms requiring verification has the weighted sum 90 exactly: 90.00 is
\* stored, on the lower bound of Excellent, and the category was computed
\* from the score before rounding.
C28_Witness ==
    \E k \in DOMAIN subject_dqi_clean_status :
        LET r == subject_dqi_clean_status[k]
        IN  /\ config = Shipped
            /\ subject_level_metrics[k].crfs_never_signed = 13
            /\ subject_level_metrics[k].crfs_require_verification = 13
            /\ UncappedScore(k) = 90 * ScoreUnit
            /\ r.dqi_score = 90 * 100
            /\ r.dqi_category = calculate_dqi_category(CapScore(UncappedScore(k)))
            /\ r.dqi_category = "Excellent"

\* The tables the two site-ID backfills write.
BackfilledTables ==
    {"Inactivated_Forms", "Missing_Lab", "SAE_Dashboard_DM",
     "SAE_Dashboard_Safety"}

\* A step keeps every row of the backfilled tables, the site of every row
\* that has a non-null, non-sentinel site, and every other column.
OnlyMissingSitesChange ==
    \A name \in BackfilledTables :
        /\ Len(dataframes'[name]) = Len(dataframes[name])
        /\ \A j \in 1..Len(dataframes[name]) :
               LET old == dataframes[name][j]
                   new == dataframes'[name][j]
               IN  /\ ~IsBlankSite(old.site) => new.site = old.site
                   /\ [new EXCEPT !.site = old.site] = old

\* C29: a site-ID backfill step (populate_site_id_in_dataframes or
\* populate_site_id_in_esae) leaves the site of every row that already has a
\* non-null, non-sentinel site as it was, and leaves every other column of
\* every row as it was.
C29_BackfillOnlyMissingSites ==
    [][(pc \in {"populate_site_id_in_dataframes", "populate_site_id_in_esae"})
           => OnlyMissingSitesChange]_vars

\* C30: after two successful calls of insert_all_data with the same inputs
\* the subject record table and every event table hold the rows they held
\* after the first call.
C30_InsertTwiceAsOnce ==
    pc = "reinserted" =>
        /\ subject_level_metrics = result.once.subject_level_metrics
        /\ database = result.once.tables

====
